---- MODULE Spec2Model ----
(***************************************************************************)
(* The provider registry of rh-utcp (package providers): a map of          *)
(* provider-type tags to factories and a map of instance names to live     *)
(* providers, both guarded by one sync.RWMutex.  Goroutines call the       *)
(* registry's methods concurrently; every method is split at the points    *)
(* where it acquires and releases the mutex, so that a state in which a    *)
(* goroutine is inside a locked section is a state of the model.           *)
(***************************************************************************)
EXTENDS Integers, Sequences, FiniteSets, TLC

(* ------------------------------ bounds --------------------------------- *)

\* Number of provider objects that can be reachable at once (stored in the
\* registry or held by a call in progress).
MaxInst == 2

\* The goroutines that call the registry.
Procs == {1, 2}

\* Instance names and provider-type tags the callers pass.
Names == {"p1", "p2"}

Tags == {"jira", "test"}

(* ------------------------- providers and tools ------------------------- *)

\* The factories callers register: the Jira constructor of the server and the
\* tests' constructor that reports success without returning a provider.
Factories == {"jira.NewProviderFromConfig", "nilnil"}

\* The registrations callers attempt: the server's, and the tests' duplicate
\* and late registrations of the constructor that returns no provider.
Registrations ==
    { << "jira", "jira.NewProviderFromConfig" >>, << "jira", "nilnil" >>, << "test", "nilnil" >> }

NoFactory == "none"

\* A nil Provider interface value.  Allocated providers are 1, 2, ...: the
\* index of their object in heap.
NilProvider == 0

\* Configurations the callers pass to CreateProvider.  A "name" entry of ""
\* stands for a map without that key.
Configs ==
    { [name |-> "stale", enabled |-> TRUE, base_url |-> "https://x", username |-> "u", password |-> "p"],
      [name |-> "", enabled |-> FALSE, base_url |-> "https://x", username |-> "u", password |-> "p"],
      [name |-> "", enabled |-> TRUE, base_url |-> "", username |-> "u", password |-> "p"] }

NoConfig == [name |-> "", enabled |-> FALSE, base_url |-> "", username |-> "", password |-> ""]

\* error values: fmt.Errorf's message split into its format, its %s argument
\* and the message of the error it wraps with %w.
NoError == [kind |-> "nil", subject |-> "", cause |-> ""]

ErrAlreadyRegistered(providerType) ==
    [kind |-> "provider type %s already registered", subject |-> providerType, cause |-> ""]

ErrUnknownType(providerType) ==
    [kind |-> "unknown provider type: %s", subject |-> providerType, cause |-> ""]

ErrCreateFailed(name, cause) ==
    [kind |-> "failed to create provider %s: %w", subject |-> name, cause |-> cause]

\* What a factory returns for a config: the provider object it built (obj),
\* whether the provider it returns is nil, and its error message ("" for nil).
FactoryResult(obj, isNil, err) == [obj |-> obj, isNil |-> isNil, err |-> err]

\* A provider object: the fields of BaseProvider and the credentials its type
\* keeps (Username and Password of Jira, APIKey of Wiki, Token of GitLab).
NoObject ==
    [name |-> "", typ |-> "", enabled |-> FALSE, base_url |-> "",
     username |-> "", password |-> "", api_key |-> "", token |-> ""]

NewProviderFromConfig(config) ==
    IF config.base_url = ""
    THEN FactoryResult(NoObject, TRUE, "base_url is required")
    ELSE IF config.username = "" \/ config.password = ""
    THEN FactoryResult(NoObject, TRUE, "username and password are required for Jira provider")
    ELSE FactoryResult([NoObject EXCEPT !.name = config.name, !.typ = "jira",
                                        !.enabled = config.enabled, !.base_url = config.base_url,
                                        !.username = config.username,
                                        !.password = config.password],
                       FALSE, "")

NilNilFactory(config) == FactoryResult(NoObject, TRUE, "")

\* wiki.NewProviderFromConfig and gitlab.NewProviderFromConfig, which the
\* server registers: constructors in the manner of Jira's, requiring the base
\* URL and the credential of the provider.
WikiNewProviderFromConfig(config) ==
    IF config.base_url = ""
    THEN FactoryResult(NoObject, TRUE, "base_url is required")
    ELSE IF config.api_key = ""
    THEN FactoryResult(NoObject, TRUE, "api_key is required for Wiki provider")
    ELSE FactoryResult([NoObject EXCEPT !.name = config.name, !.typ = "wiki",
                                        !.enabled = config.enabled, !.base_url = config.base_url,
                                        !.api_key = config.api_key],
                       FALSE, "")

GitlabNewProviderFromConfig(config) ==
    IF config.base_url = ""
    THEN FactoryResult(NoObject, TRUE, "base_url is required")
    ELSE IF config.token = ""
    THEN FactoryResult(NoObject, TRUE, "token is required for GitLab provider")
    ELSE FactoryResult([NoObject EXCEPT !.name = config.name, !.typ = "gitlab",
                                        !.enabled = config.enabled, !.base_url = config.base_url,
                                        !.token = config.token],
                       FALSE, "")

CallFactory(factory, config) ==
    IF factory = "jira.NewProviderFromConfig" THEN NewProviderFromConfig(config)
    ELSE IF factory = "wiki.NewProviderFromConfig" THEN WikiNewProviderFromConfig(config)
    ELSE IF factory = "gitlab.NewProviderFromConfig" THEN GitlabNewProviderFromConfig(config)
    ELSE NilNilFactory(config)

\* The tool names a provider emits, in emission order, by its type.
JiraToolNames ==
    << "jira_search_issues", "jira_get_issue", "jira_create_issue", "jira_update_issue",
       "jira_get_projects", "jira_add_comment", "jira_get_user_issues" >>

WikiToolNames ==
    << "wiki_search_pages", "wiki_get_page", "wiki_create_page", "wiki_update_page",
       "wiki_list_spaces", "wiki_get_attachments", "wiki_export_page",
       "wiki_get_page_history" >>

GitlabToolNames ==
    << "gitlab_search_projects", "gitlab_get_project", "gitlab_list_merge_requests",
       "gitlab_get_merge_request", "gitlab_list_issues", "gitlab_get_file",
       "gitlab_list_repository_tree", "gitlab_list_pipelines", "gitlab_get_pipeline",
       "gitlab_search_code" >>

ToolNames(typ) ==
    IF typ = "jira" THEN JiraToolNames
    ELSE IF typ = "wiki" THEN WikiToolNames
    ELSE IF typ = "gitlab" THEN GitlabToolNames
    ELSE << >>

\* The invocation descriptors of package utcp.  An auth descriptor names the
\* environment variable of a secret behind a "$".
HTTPProvider(name, url, method, auth) ==
    [provider_type |-> "http", provider_id |-> name, url |-> url, http_method |-> method,
     auth |-> auth]

APIKeyAuth(envVar, varName) ==
    [auth_type |-> "api_key", api_key |-> "$" \o envVar, var_name |-> varName]

BasicAuth(usernameEnv, passwordEnv) ==
    [auth_type |-> "basic", username |-> "$" \o usernameEnv, password |-> "$" \o passwordEnv]

OAuth2Auth(clientIDEnv, clientSecretEnv, tokenURLEnv) ==
    [auth_type |-> "oauth2", client_id |-> "$" \o clientIDEnv,
     client_secret |-> "$" \o clientSecretEnv, token_url |-> "$" \o tokenURLEnv]

PersonalTokenAuth(tokenEnv, headerName) ==
    [auth_type |-> "personal_token", token |-> "$" \o tokenEnv, header_name |-> headerName]

\* Per tool of a provider type, in emission order: the provider id, the path
\* its URL appends to the base URL, and the HTTP method.
JiraEndpoints ==
    << << "jira_search", "/rest/api/2/search", "GET" >>,
       << "jira_get_issue", "/rest/api/2/issue/${issueKey}", "GET" >>,
       << "jira_create_issue", "/rest/api/2/issue", "POST" >>,
       << "jira_update_issue", "/rest/api/2/issue/${issueKey}", "PUT" >>,
       << "jira_get_projects", "/rest/api/2/project", "GET" >>,
       << "jira_add_comment", "/rest/api/2/issue/${issueKey}/comment", "POST" >>,
       << "jira_user_issues", "/rest/api/2/search", "GET" >> >>

WikiEndpoints ==
    << << "wiki_search", "/rest/api/content/search", "GET" >>,
       << "wiki_get_page", "/rest/api/content/${pageId}", "GET" >>,
       << "wiki_create_page", "/rest/api/content", "POST" >>,
       << "wiki_update_page", "/rest/api/content/${pageId}", "PUT" >>,
       << "wiki_list_spaces", "/rest/api/space", "GET" >>,
       << "wiki_get_attachments", "/rest/api/content/${pageId}/child/attachment", "GET" >>,
       << "wiki_export_page", "/rest/api/content/${pageId}/export/${format}", "GET" >>,
       << "wiki_get_history", "/rest/api/content/${pageId}/version", "GET" >> >>

GitlabEndpoints ==
    << << "gitlab_search_projects", "/api/v4/projects", "GET" >>,
       << "gitlab_get_project", "/api/v4/projects/${id}", "GET" >>,
       << "gitlab_list_mrs", "/api/v4/projects/${project_id}/merge_requests", "GET" >>,
       << "gitlab_get_mr",
          "/api/v4/projects/${project_id}/merge_requests/${merge_request_iid}", "GET" >>,
       << "gitlab_list_issues", "/api/v4/issues", "GET" >>,
       << "gitlab_get_file",
          "/api/v4/projects/${project_id}/repository/files/${file_path}", "GET" >>,
       << "gitlab_list_tree", "/api/v4/projects/${project_id}/repository/tree", "GET" >>,
       << "gitlab_list_pipelines", "/api/v4/projects/${project_id}/pipelines", "GET" >>,
       << "gitlab_get_pipeline",
          "/api/v4/projects/${project_id}/pipelines/${pipeline_id}", "GET" >>,
       << "gitlab_search_code", "/api/v4/search", "GET" >> >>

Endpoints(typ) ==
    IF typ = "jira" THEN JiraEndpoints
    ELSE IF typ = "wiki" THEN WikiEndpoints
    ELSE IF typ = "gitlab" THEN GitlabEndpoints
    ELSE << >>

\* Mutant: the auth descriptor carries the receiver's own credentials.
ToolAuthLiteral(p) ==
    IF p.typ = "jira"
    THEN [auth_type |-> "basic", username |-> p.username, password |-> p.password]
    ELSE IF p.typ = "wiki"
    THEN [auth_type |-> "api_key", api_key |-> p.api_key, var_name |-> "Authorization"]
    ELSE [auth_type |-> "personal_token", token |-> p.token, header_name |-> "PRIVATE-TOKEN"]

\* The auth descriptor GetTools of receiver p gives each of its tools.
ToolAuth(p) ==
    IF p.typ = "jira" THEN BasicAuth("JIRA_USERNAME", "JIRA_PASSWORD")
    ELSE IF p.typ = "wiki" THEN APIKeyAuth("WIKI_API_KEY", "Authorization")
    ELSE PersonalTokenAuth("GITLAB_TOKEN", "PRIVATE-TOKEN")

\* ToolProvider of tool k of receiver p: its URL is fmt.Sprintf("%s<path>", p.BaseURL).
ToolProvider(p, k) ==
    HTTPProvider(Endpoints(p.typ)[k][1], p.base_url \o Endpoints(p.typ)[k][2],
                 Endpoints(p.typ)[k][3], ToolAuth(p))

(* ------------------------------- state --------------------------------- *)

VARIABLES
    factories,   \* Registry.factories: tag -> factory (a function on the registered tags)
    providers,   \* Registry.providers: name -> provider (a function on the stored names)
    mu,          \* Registry.mu: [w: a writer holds it, r: number of readers holding it]
    heap,        \* the provider objects: provider i is heap[i], NoObject when i is free
    frame,       \* per goroutine: the call it is in, its position, its locals and,
                 \* at "ret", the values it returns
    live,        \* history: name -> provider of the latest successful CreateProvider
                 \* since the latest Clear
    srv          \* the server process (package main): its position in main, its
                 \* environment and config file, its globals and what it has served

vars == << factories, providers, mu, heap, frame, live, srv >>

EmptyMap == [x \in {} |-> NilProvider]

\* m[k] = v of a Go map.
MapStore(m, k, v) == [x \in (DOMAIN m) \cup {k} |-> IF x = k THEN v ELSE m[x]]

Range(f) == {f[x] : x \in DOMAIN f}

\* The registry on its own, as the tests of package providers use it: no
\* server process.
NoServer == [pc |-> "none"]

IdleFrame ==
    [pc |-> "idle", op |-> "", name |-> "", typ |-> "", config |-> NoConfig,
     factory |-> NoFactory, provider |-> NilProvider, exists |-> FALSE,
     list |-> << >>, i |-> 0, tools |-> << >>, err |-> NoError]

Init ==
    /\ factories = [x \in {} |-> NoFactory]
    /\ providers = EmptyMap
    /\ mu = [w |-> FALSE, r |-> 0]
    /\ heap = [i \in 1..MaxInst |-> NoObject]
    /\ frame = [p \in Procs |-> IdleFrame]
    /\ live = EmptyMap
    /\ srv = NoServer

(* ------------------------- the provider objects ------------------------ *)

Free(h) == {i \in DOMAIN h : h[i] = NoObject}

\* The address of a new object: a free one.
NewObject(h) == CHOOSE i \in Free(h) : \A j \in Free(h) : i <= j

\* The objects some reference still reaches: those stored in the registry and
\* those a call in progress holds.  The others are garbage, and their
\* addresses are free again.
Reachable(ps, fr, lv) ==
    Range(ps) \cup Range(lv)
        \cup {fr[p].provider : p \in Procs}
        \cup UNION {Range(fr[p].list) : p \in Procs}

Collect(h, ps, fr, lv) ==
    [i \in DOMAIN h |-> IF i \in Reachable(ps, fr, lv) THEN h[i] ELSE NoObject]

(* ----------------------------- sync.RWMutex ---------------------------- *)

\* Mutant: a writer is admitted while readers hold the mutex.
CanLockDespiteReaders == ~mu.w

CanLock == ~mu.w /\ mu.r = 0

\* Mutant: a reader is admitted while a writer holds the mutex.
CanRLockAlways == TRUE

CanRLock == ~mu.w

Locked == [mu EXCEPT !.w = TRUE]

Unlocked == [mu EXCEPT !.w = FALSE]

RLocked == [mu EXCEPT !.r = @ + 1]

\* Mutant: the read lock is not released.
RUnlockedKept == mu

RUnlocked == [mu EXCEPT !.r = @ - 1]

(* ------------------------------ scheduling ----------------------------- *)

\* A nil-interface method call has panicked: the process is gone.
Crashed == \E p \in Procs : frame[p].pc = "panic"

\* A call that has its results returns them before any other goroutine moves:
\* returning touches nothing shared.
Returning == \E p \in Procs : frame[p].pc = "ret"

Running == ~Crashed /\ ~Returning

Idle(p) == Running /\ frame[p].pc = "idle"

At(p, pc) == Running /\ frame[p].pc = pc

\* The frame of a call that returns: its operation, its arguments and its results.
Returned(f) == [f EXCEPT !.pc = "ret"]

(* --------------------------- RegisterFactory --------------------------- *)

RegisterFactoryLock(p, providerType, factory) ==
    /\ Idle(p)
    /\ CanLock
    /\ mu' = Locked
    /\ frame' = [frame EXCEPT ![p] = [IdleFrame EXCEPT !.pc = "rf_locked",
                     !.op = "RegisterFactory", !.typ = providerType, !.factory = factory]]
    /\ UNCHANGED << factories, providers, heap, live, srv >>

\* Mutant: a registration rebinds a tag that is already registered.
RegisteredFactoriesOverwrite(fs, providerType, factory) == MapStore(fs, providerType, factory)

RegisteredFactories(fs, providerType, factory) ==
    IF providerType \in DOMAIN fs THEN fs ELSE MapStore(fs, providerType, factory)

RegisterFactoryError(fs, providerType) ==
    IF providerType \in DOMAIN fs THEN ErrAlreadyRegistered(providerType) ELSE NoError

RegisterFactoryBody(p) ==
    /\ At(p, "rf_locked")
    /\ factories' = RegisteredFactories(factories, frame[p].typ, frame[p].factory)
    /\ frame' = [frame EXCEPT ![p] =
                    Returned([@ EXCEPT !.err = RegisterFactoryError(factories, frame[p].typ)])]
    /\ mu' = Unlocked
    /\ UNCHANGED << providers, heap, live, srv >>

(* ---------------------------- CreateProvider --------------------------- *)

\* Calls that may still allocate a provider object.
Allocating == {q \in Procs : frame[q].pc \in {"cp_rlocked", "cp_factory"}}

CreateProviderRLock(p, name, providerType, config) ==
    /\ Idle(p)
    /\ CanRLock
    /\ Cardinality(Allocating) < Cardinality(Free(heap))
    /\ mu' = RLocked
    /\ frame' = [frame EXCEPT ![p] = [IdleFrame EXCEPT !.pc = "cp_rlocked",
                     !.op = "CreateProvider", !.name = name, !.typ = providerType,
                     !.config = config]]
    /\ UNCHANGED << factories, providers, heap, live, srv >>

\* Mutant: the lookup reports every tag as registered.
LookupFactoryAlways(fs, providerType) ==
    [factory |-> IF providerType \in DOMAIN fs THEN fs[providerType] ELSE NoFactory,
     exists |-> TRUE]

\* factory, exists := r.factories[providerType]
LookupFactory(fs, providerType) ==
    IF providerType \in DOMAIN fs THEN [factory |-> fs[providerType], exists |-> TRUE]
    ELSE [factory |-> NoFactory, exists |-> FALSE]

CreateProviderLookup(p) ==
    /\ At(p, "cp_rlocked")
    /\ mu' = RUnlocked
    /\ frame' = [frame EXCEPT ![p] =
                    IF LookupFactory(factories, frame[p].typ).exists
                    THEN [@ EXCEPT !.pc = "cp_factory", !.exists = TRUE,
                                   !.factory = LookupFactory(factories, frame[p].typ).factory]
                    ELSE Returned([@ EXCEPT !.err = ErrUnknownType(frame[p].typ)])]
    /\ UNCHANGED << factories, providers, heap, live, srv >>

\* Mutant: a "name" the caller put in config is kept.
InjectNameIfAbsent(config, name) ==
    IF config.name = "" THEN [config EXCEPT !.name = name] ELSE config

\* config["name"] = name
InjectName(config, name) == [config EXCEPT !.name = name]

\* The frame after the factory call: config and factory are not used again.
Waiting(f, provider) ==
    [IdleFrame EXCEPT !.pc = "cp_lockwait", !.op = f.op, !.name = f.name, !.typ = f.typ,
                      !.provider = provider]

\* Mutant: the factory's error is ignored.
FactoryFailedNever(r) == FALSE

\* if err != nil, of the factory's result r
FactoryFailed(r) == r.err # ""

CreateProviderFactory(p) ==
    /\ At(p, "cp_factory")
    /\ LET config == InjectName(frame[p].config, frame[p].name)
           r == CallFactory(frame[p].factory, config)
       IN  IF FactoryFailed(r)
           THEN /\ frame' = [frame EXCEPT ![p] = Returned([@ EXCEPT !.config = config,
                                 !.err = ErrCreateFailed(frame[p].name, r.err)])]
                /\ heap' = heap
           ELSE IF r.isNil
           THEN /\ frame' = [frame EXCEPT ![p] = Waiting(@, NilProvider)]
                /\ heap' = heap
           ELSE /\ frame' = [frame EXCEPT ![p] = Waiting(@, NewObject(heap))]
                /\ heap' = [heap EXCEPT ![NewObject(heap)] = r.obj]
    /\ UNCHANGED << factories, providers, mu, live, srv >>

CreateProviderLock(p) ==
    /\ At(p, "cp_lockwait")
    /\ CanLock
    /\ mu' = Locked
    /\ frame' = [frame EXCEPT ![p].pc = "cp_locked"]
    /\ UNCHANGED << factories, providers, heap, live, srv >>

\* Mutant: an instance already stored under the name is kept.
StoredProvidersKeepOld(ps, name, provider) ==
    IF name \in DOMAIN ps THEN ps ELSE MapStore(ps, name, provider)

\* Mutant: the store writes into a fresh map and loses the other registrations.
StoredProvidersLost(ps, name, provider) == [x \in {name} |-> provider]

StoredProviders(ps, name, provider) == MapStore(ps, name, provider)

CreateProviderStore(p) ==
    /\ At(p, "cp_locked")
    /\ providers' = StoredProviders(providers, frame[p].name, frame[p].provider)
    /\ live' = MapStore(live, frame[p].name, frame[p].provider)
    /\ mu' = Unlocked
    /\ frame' = [frame EXCEPT ![p] = Returned([@ EXCEPT !.err = NoError])]
    /\ heap' = Collect(heap, providers', frame', live')
    /\ UNCHANGED << factories, srv >>

(* ------------------------------ GetProvider ---------------------------- *)

GetProviderRLock(p, name) ==
    /\ Idle(p)
    /\ CanRLock
    /\ mu' = RLocked
    /\ frame' = [frame EXCEPT ![p] = [IdleFrame EXCEPT !.pc = "gp_rlocked",
                     !.op = "GetProvider", !.name = name]]
    /\ UNCHANGED << factories, providers, heap, live, srv >>

\* Mutant: a nil provider stored under the name is reported as not found.
MapLookupNonNil(m, k) ==
    IF k \in DOMAIN m /\ m[k] # NilProvider THEN [provider |-> m[k], exists |-> TRUE]
    ELSE [provider |-> NilProvider, exists |-> FALSE]

\* provider, exists := r.providers[name]
MapLookup(m, k) ==
    IF k \in DOMAIN m THEN [provider |-> m[k], exists |-> TRUE]
    ELSE [provider |-> NilProvider, exists |-> FALSE]

GetProviderRead(p) ==
    /\ At(p, "gp_rlocked")
    /\ mu' = RUnlocked
    /\ frame' = [frame EXCEPT ![p] =
                    Returned([@ EXCEPT !.exists = MapLookup(providers, frame[p].name).exists,
                                       !.provider = MapLookup(providers, frame[p].name).provider])]
    /\ UNCHANGED << factories, providers, heap, live, srv >>

(* ---------------- GetAllProviders, GetEnabledProviders ----------------- *)

\* The orders in which a range loop may visit the keys of a map.
Orders(S) == {s \in [1..Cardinality(S) -> S] : \A i, j \in DOMAIN s : i # j => s[i] # s[j]}

IsEnabled(provider) == heap[provider].enabled

GetAllProvidersRLock(p) ==
    /\ Idle(p)
    /\ CanRLock
    /\ mu' = RLocked
    /\ frame' = [frame EXCEPT ![p] = [IdleFrame EXCEPT !.pc = "ga_rlocked",
                     !.op = "GetAllProviders"]]
    /\ UNCHANGED << factories, providers, heap, live, srv >>

AllProviders(ps, order) == [k \in 1..Len(order) |-> ps[order[k]]]

GetAllProvidersRead(p) ==
    /\ At(p, "ga_rlocked")
    /\ \E order \in Orders(DOMAIN providers) :
          frame' = [frame EXCEPT ![p] = Returned([@ EXCEPT !.list = AllProviders(providers, order)])]
    /\ mu' = RUnlocked
    /\ UNCHANGED << factories, providers, heap, live, srv >>

\* Mutant: the enabled filter is dropped.
EnabledProvidersUnfiltered(ps, order) == AllProviders(ps, order)

\* The loop of GetEnabledProviders over the providers visited in `order`.
EnabledProviders(ps, order) ==
    LET Keep(provider) == IsEnabled(provider)
    IN  SelectSeq(AllProviders(ps, order), Keep)

\* provider.IsEnabled() on a nil interface value panics.
HasNil(ps) == \E n \in DOMAIN ps : ps[n] = NilProvider

GetEnabledProvidersRLock(p) ==
    /\ Idle(p)
    /\ CanRLock
    /\ mu' = RLocked
    /\ frame' = [frame EXCEPT ![p] = [IdleFrame EXCEPT !.pc = "ge_rlocked",
                     !.op = "GetEnabledProviders"]]
    /\ UNCHANGED << factories, providers, heap, live, srv >>

GetEnabledProvidersRead(p) ==
    /\ At(p, "ge_rlocked")
    /\ IF HasNil(providers)
       THEN frame' = [frame EXCEPT ![p].pc = "panic"]
       ELSE \E order \in Orders(DOMAIN providers) :
               frame' = [frame EXCEPT ![p] =
                            Returned([@ EXCEPT !.list = EnabledProviders(providers, order)])]
    /\ mu' = RUnlocked
    /\ UNCHANGED << factories, providers, heap, live, srv >>

(* ------------------------------ GetAllTools ---------------------------- *)

\* provider.GetTools(): the tools of provider object `provider`, each with the
\* object that emitted it (the receiver whose BaseURL the tool's URL embeds).
GetTools(provider) ==
    LET names == ToolNames(heap[provider].typ)
    IN  [k \in 1..Len(names) |->
            [name |-> names[k], owner |-> provider,
             tool_provider |-> ToolProvider(heap[provider], k)]]

GetAllToolsRLock(p) ==
    /\ Idle(p)
    /\ CanRLock
    /\ mu' = RLocked
    /\ frame' = [frame EXCEPT ![p] = [IdleFrame EXCEPT !.pc = "gt_rlocked",
                     !.op = "GetAllTools"]]
    /\ UNCHANGED << factories, providers, heap, live, srv >>

GetAllToolsSnapshot(p) ==
    /\ At(p, "gt_rlocked")
    /\ IF HasNil(providers)
       THEN frame' = [frame EXCEPT ![p].pc = "panic"]
       ELSE \E order \in Orders(DOMAIN providers) :
               frame' = [frame EXCEPT ![p].pc = "gt_loop", ![p].i = 1,
                             ![p].list = EnabledProviders(providers, order)]
    /\ mu' = RUnlocked
    /\ UNCHANGED << factories, providers, heap, live, srv >>

\* Mutant: a tool whose name is already in the result is skipped.
RECURSIVE AppendedToolsDedup(_, _, _)
AppendedToolsDedup(tools, list, i) ==
    IF i > Len(list) THEN tools
    ELSE LET Fresh(tool) == \A k \in 1..Len(tools) : tools[k].name # tool.name
         IN  AppendedToolsDedup(tools \o SelectSeq(GetTools(list[i]), Fresh), list, i + 1)

\* Mutant: the loop skips a provider of the snapshot that is no longer stored.
RECURSIVE AppendedToolsOfStored(_, _, _)
AppendedToolsOfStored(tools, list, i) ==
    IF i > Len(list) THEN tools
    ELSE AppendedToolsOfStored(
             IF list[i] \in Range(providers) THEN tools \o GetTools(list[i]) ELSE tools,
             list, i + 1)

\* The loop of GetAllTools over the snapshot: tools = append(tools, GetTools()...)
\* for each provider of `list` from position i on.  It runs with no lock held and
\* reads only the snapshot and what GetTools reads, the providers' own fields.
RECURSIVE AppendedTools(_, _, _)
AppendedTools(tools, list, i) ==
    IF i > Len(list) THEN tools
    ELSE AppendedTools(tools \o GetTools(list[i]), list, i + 1)

GetAllToolsLoop(p) ==
    /\ At(p, "gt_loop")
    /\ frame' = [frame EXCEPT ![p] =
                    Returned([@ EXCEPT !.tools = AppendedTools(@, frame[p].list, frame[p].i),
                                       !.i = Len(frame[p].list) + 1])]
    /\ UNCHANGED << factories, providers, mu, heap, live, srv >>

(* --------------------------------- Clear ------------------------------- *)

ClearLock(p) ==
    /\ Idle(p)
    /\ CanLock
    /\ mu' = Locked
    /\ frame' = [frame EXCEPT ![p] = [IdleFrame EXCEPT !.pc = "cl_locked", !.op = "Clear"]]
    /\ UNCHANGED << factories, providers, heap, live, srv >>

\* Mutant: Clear leaves the instances in place.
ClearedProvidersKept(ps) == ps

ClearedProviders(ps) == EmptyMap

ClearBody(p) ==
    /\ At(p, "cl_locked")
    /\ providers' = ClearedProviders(providers)
    /\ live' = EmptyMap
    /\ mu' = Unlocked
    /\ frame' = [frame EXCEPT ![p] = Returned(@)]
    /\ heap' = Collect(heap, providers', frame', live')
    /\ UNCHANGED << factories, srv >>

(* ------------------------- return, environment ------------------------- *)

\* The call returns to its caller, which drops the results.
Return(p) ==
    /\ ~Crashed
    /\ frame[p].pc = "ret"
    /\ frame' = [frame EXCEPT ![p] = IdleFrame]
    /\ heap' = Collect(heap, providers, frame', live)
    /\ UNCHANGED << factories, providers, mu, live, srv >>

\* A holder of a stored provider assigns its exported Enabled field.
SetEnabled(name, enabled) ==
    /\ Running
    /\ name \in DOMAIN providers
    /\ providers[name] # NilProvider
    /\ heap[providers[name]].enabled # enabled
    /\ heap' = [heap EXCEPT ![providers[name]].enabled = enabled]
    /\ UNCHANGED << factories, providers, mu, frame, live, srv >>

Next ==
    \/ \E p \in Procs, reg \in Registrations : RegisterFactoryLock(p, reg[1], reg[2])
    \/ \E p \in Procs : RegisterFactoryBody(p)
    \/ \E p \in Procs, n \in Names, t \in Tags, c \in Configs : CreateProviderRLock(p, n, t, c)
    \/ \E p \in Procs : CreateProviderLookup(p)
    \/ \E p \in Procs : CreateProviderFactory(p)
    \/ \E p \in Procs : CreateProviderLock(p)
    \/ \E p \in Procs : CreateProviderStore(p)
    \/ \E p \in Procs, n \in Names : GetProviderRLock(p, n)
    \/ \E p \in Procs : GetProviderRead(p)
    \/ \E p \in Procs : GetAllProvidersRLock(p)
    \/ \E p \in Procs : GetAllProvidersRead(p)
    \/ \E p \in Procs : GetEnabledProvidersRLock(p)
    \/ \E p \in Procs : GetEnabledProvidersRead(p)
    \/ \E p \in Procs : GetAllToolsRLock(p)
    \/ \E p \in Procs : GetAllToolsSnapshot(p)
    \/ \E p \in Procs : GetAllToolsLoop(p)
    \/ \E p \in Procs : ClearLock(p)
    \/ \E p \in Procs : ClearBody(p)
    \/ \E p \in Procs : Return(p)
    \/ \E n \in Names, b \in BOOLEAN : SetEnabled(n, b)

\* The registry under concurrent callers; the server process takes no part.
Spec == Init /\ [][Next]_vars

\* The steps by which goroutine p goes on with the call it is in.
Continue(p) ==
    \/ RegisterFactoryBody(p)
    \/ CreateProviderLookup(p)
    \/ CreateProviderFactory(p)
    \/ CreateProviderLock(p)
    \/ CreateProviderStore(p)
    \/ GetProviderRead(p)
    \/ GetAllProvidersRead(p)
    \/ GetEnabledProvidersRead(p)
    \/ GetAllToolsSnapshot(p)
    \/ GetAllToolsLoop(p)
    \/ ClearBody(p)
    \/ Return(p)

\* The registry under a fair scheduler: a goroutine that is in a call and can
\* go on does so, and a goroutine waiting for the mutex gets it if it is free
\* again and again (sync.RWMutex does not starve a waiter).  Fairness is strong
\* because a step of the model is disabled while another goroutine returns.
FairSpec == Init /\ [][Next]_vars /\ \A p \in Procs : SF_vars(Continue(p))

(* --------------------------- package config ---------------------------- *)

\* Length of the providers list of a config file.
MaxFileProviders == 2

\* AuthConfig and ProviderConfig values; "" is Go's zero string.
AuthConfig(typ, username, password, apiKey, token, clientID, clientSecret, tokenURL) ==
    [Type |-> typ, Username |-> username, Password |-> password, APIKey |-> apiKey,
     Token |-> token, ClientID |-> clientID, ClientSecret |-> clientSecret,
     TokenURL |-> tokenURL]

NoAuth == AuthConfig("", "", "", "", "", "", "", "")

ProviderConfig(name, typ, enabled, baseURL, auth) ==
    [Name |-> name, Type |-> typ, Enabled |-> enabled, BaseURL |-> baseURL, Auth |-> auth]

\* The process environment: the variables Load reads, "" when unset.  The
\* credentials are set whenever their base URL is.
Environments ==
    { [PORT |-> port,
       JIRA_BASE_URL |-> jira,
       JIRA_USERNAME |-> IF jira = "" THEN "" ELSE "testuser",
       JIRA_PASSWORD |-> IF jira = "" THEN "" ELSE "testpass",
       WIKI_BASE_URL |-> wiki,
       WIKI_API_KEY |-> IF wiki = "" THEN "" ELSE "wiki-key-123",
       GITLAB_BASE_URL |-> gitlab,
       GITLAB_TOKEN |-> IF gitlab = "" THEN "" ELSE "gitlab-token-456"] :
      port \in {"", "9090"},
      jira \in {"", "https://jira.test.com"},
      wiki \in {"", "https://wiki.test.com"},
      gitlab \in {"", "https://gitlab.test.com"} }

\* The entries a config file lists under `providers`, as UnmarshalKey decodes
\* them.
FileEntries ==
    { ProviderConfig("jira", "jira", TRUE, "https://jira.x.com",
                     AuthConfig("basic", "", "p", "", "", "", "", "")),
      ProviderConfig("tracker", "jira", TRUE, "https://tracker.x.com",
                     AuthConfig("basic", "u", "p", "", "", "", "", "")),
      ProviderConfig("wiki", "wiki", FALSE, "https://wiki.x.com",
                     AuthConfig("api_key", "", "", "k", "", "", "", "")),
      ProviderConfig("docs", "confluence", TRUE, "https://docs.x.com",
                     AuthConfig("api_key", "", "", "", "", "", "", "")),
      ProviderConfig("code", "gitlab", TRUE, "https://code.x.com",
                     AuthConfig("personal_token", "", "", "", "", "", "", "")),
      ProviderConfig("sso", "gitlab", TRUE, "https://sso.x.com",
                     AuthConfig("oauth2", "", "", "", "", "id", "secret", "")),
      ProviderConfig("", "jira", FALSE, "", NoAuth),
      ProviderConfig("untyped", "", FALSE, "", NoAuth),
      ProviderConfig("nobase", "jira", TRUE, "",
                     AuthConfig("basic", "u", "p", "", "", "", "", "")),
      ProviderConfig("open", "jira", TRUE, "https://open.x.com",
                     AuthConfig("bearer", "", "", "", "", "", "", "")),
      ProviderConfig("board", "jira", TRUE, "https://board.x.com",
                     AuthConfig("api_key", "", "", "k", "", "", "", "")),
      ProviderConfig("tracker", "jira", FALSE, "https://old.x.com",
                     AuthConfig("basic", "u", "p", "", "", "", "", "")),
      ProviderConfig("svn", "svn", FALSE, "", NoAuth) }

SeqsUpTo(S, n) == UNION {[1..k -> S] : k \in 0..n}

\* The config file viper finds: none, one it cannot parse, or one it parses,
\* with its server.port ("unset" when the key is absent) and its providers
\* key: absent, not decodable into []ProviderConfig, or a list.
ConfigFiles ==
    { [status |-> "missing", port |-> "unset", providers |-> "unset", list |-> << >>],
      [status |-> "unparsable", port |-> "unset", providers |-> "unset", list |-> << >>] }
    \cup { [status |-> "ok", port |-> port, providers |-> "unset", list |-> << >>] :
             port \in {"unset", ""} }
    \cup { [status |-> "ok", port |-> port, providers |-> "undecodable", list |-> << >>] :
             port \in {"unset", ""} }
    \cup { [status |-> "ok", port |-> port, providers |-> "list", list |-> list] :
             port \in {"unset", ""}, list \in SeqsUpTo(FileEntries, MaxFileProviders) }

\* v.GetString("server.port"): the file's value, else the default Load sets.
ViperServerPort(file) == IF file.port = "unset" THEN "8080" ELSE file.port

getEnvOrDefault(value, defaultValue) == IF value # "" THEN value ELSE defaultValue

\* The entries Load builds from the environment, in the order it appends them.
EnvProviders(env) ==
    (IF env.JIRA_BASE_URL # ""
     THEN << ProviderConfig("jira", "jira", TRUE, env.JIRA_BASE_URL,
                 AuthConfig("basic", env.JIRA_USERNAME, env.JIRA_PASSWORD, "", "", "", "", "")) >>
     ELSE << >>)
    \o (IF env.WIKI_BASE_URL # ""
        THEN << ProviderConfig("wiki", "confluence", TRUE, env.WIKI_BASE_URL,
                    AuthConfig("api_key", "", "", env.WIKI_API_KEY, "", "", "", "")) >>
        ELSE << >>)
    \o (IF env.GITLAB_BASE_URL # ""
        THEN << ProviderConfig("gitlab", "gitlab", TRUE, env.GITLAB_BASE_URL,
                    AuthConfig("personal_token", "", "", "", env.GITLAB_TOKEN, "", "", "")) >>
        ELSE << >>)

\* Mutant: every file entry is appended.
MergedProvidersAppendAll(list, fileProviders, k) ==
    list \o SubSeq(fileProviders, k, Len(fileProviders))

\* Mutant: a file entry replaces the entry of the same name.
RECURSIVE MergedProvidersFileWins(_, _, _)
MergedProvidersFileWins(list, fileProviders, k) ==
    IF k > Len(fileProviders) THEN list
    ELSE LET fp == fileProviders[k]
             exists == \E j \in 1..Len(list) : list[j].Name = fp.Name
         IN  MergedProvidersFileWins(
                 IF exists
                 THEN [j \in 1..Len(list) |-> IF list[j].Name = fp.Name THEN fp ELSE list[j]]
                 ELSE Append(list, fp),
                 fileProviders, k + 1)

\* The merge loop of Load: file entry k onwards, appended to `list` unless an
\* entry of `list` already has its name.
RECURSIVE MergedProviders(_, _, _)
MergedProviders(list, fileProviders, k) ==
    IF k > Len(fileProviders) THEN list
    ELSE LET fp == fileProviders[k]
             exists == \E j \in 1..Len(list) : list[j].Name = fp.Name
         IN  MergedProviders(IF exists THEN list ELSE Append(list, fp), fileProviders, k + 1)

NoCfg ==
    [Server |-> [Port |-> "", Environment |-> "", LogLevel |-> ""], Providers |-> << >>]

\* Load(): the configuration and the error ("" for nil).
Load(env, file) ==
    IF file.status = "unparsable"
    THEN [cfg |-> NoCfg, err |-> "error reading config file: %w"]
    ELSE IF file.providers = "undecodable"
    THEN [cfg |-> NoCfg, err |-> "error unmarshaling providers: %w"]
    ELSE [cfg |-> [Server |-> [Port |-> getEnvOrDefault(env.PORT, ViperServerPort(file)),
                               Environment |-> "development", LogLevel |-> "info"],
                   Providers |-> IF file.providers = "list"
                                 THEN MergedProviders(EnvProviders(env), file.list, 1)
                                 ELSE EnvProviders(env)],
          err |-> ""]

\* Mutant: the switch on the auth type has lost its oauth2 case.
AuthErrorWithoutOAuth2(auth) ==
    IF auth.Type = "basic" /\ (auth.Username = "" \/ auth.Password = "")
    THEN "username and password required for basic auth"
    ELSE IF auth.Type = "api_key" /\ auth.APIKey = ""
    THEN "API key required for api_key auth"
    ELSE IF auth.Type = "personal_token" /\ auth.Token = ""
    THEN "token required for personal_token auth"
    ELSE ""

\* The switch of ProviderConfig.Validate on the auth type: its error message,
\* "" when it returns none.
AuthError(auth) ==
    IF auth.Type = "basic"
    THEN (IF auth.Username = "" \/ auth.Password = ""
          THEN "username and password required for basic auth" ELSE "")
    ELSE IF auth.Type = "api_key"
    THEN (IF auth.APIKey = "" THEN "API key required for api_key auth" ELSE "")
    ELSE IF auth.Type = "personal_token"
    THEN (IF auth.Token = "" THEN "token required for personal_token auth" ELSE "")
    ELSE IF auth.Type = "oauth2"
    THEN (IF auth.ClientID = "" \/ auth.ClientSecret = "" \/ auth.TokenURL = ""
          THEN "client_id, client_secret, and token_url required for oauth2 auth" ELSE "")
    ELSE ""

\* (p *ProviderConfig) Validate(): its error message, "" for nil.
ProviderConfigValidate(p) ==
    IF p.Name = "" THEN "provider name is required"
    ELSE IF p.Type = "" THEN "provider type is required"
    ELSE IF p.Enabled /\ p.BaseURL = "" THEN "base URL is required for enabled provider"
    ELSE IF p.Enabled THEN AuthError(p.Auth)
    ELSE ""

ErrServerPort == [kind |-> "server port is required", subject |-> "", cause |-> ""]

ErrProvider(name, cause) == [kind |-> "provider %s: %w", subject |-> name, cause |-> cause]

\* Mutant: the loop reports the last invalid provider.
RECURSIVE ValidateProvidersLast(_, _)
ValidateProvidersLast(list, k) ==
    IF k > Len(list) THEN NoError
    ELSE IF ValidateProvidersLast(list, k + 1) # NoError THEN ValidateProvidersLast(list, k + 1)
    ELSE IF ProviderConfigValidate(list[k]) # ""
    THEN ErrProvider(list[k].Name, ProviderConfigValidate(list[k]))
    ELSE NoError

\* The loop of Config.Validate from provider k on.
RECURSIVE ValidateProviders(_, _)
ValidateProviders(list, k) ==
    IF k > Len(list) THEN NoError
    ELSE IF ProviderConfigValidate(list[k]) # ""
    THEN ErrProvider(list[k].Name, ProviderConfigValidate(list[k]))
    ELSE ValidateProviders(list, k + 1)

\* Mutant: Validate checks the server port only.
ValidatePortOnly(c) == IF c.Server.Port = "" THEN ErrServerPort ELSE NoError

\* (c *Config) Validate()
Validate(c) ==
    IF c.Server.Port = "" THEN ErrServerPort ELSE ValidateProviders(c.Providers, 1)

(* ----------------------------- package utcp ---------------------------- *)

\* A Go slice: nil or not, and its elements.
Slice(isNil, elems) == [isNil |-> isNil, elems |-> elems]

\* Mutant: the manual starts with a nil Tools slice.
NewManualNilTools == [Version |-> "0.1.0", Tools |-> Slice(TRUE, << >>)]

NewManual == [Version |-> "0.1.0", Tools |-> Slice(FALSE, << >>)]

\* m.Tools = append(m.Tools, tool)
AddTool(manual, tool) ==
    [manual EXCEPT !.Tools = Slice(FALSE, Append(manual.Tools.elems, tool))]

\* encoding/json of a Manual: its fields under their json tags; a nil slice
\* encodes as null, any other as an array.
MarshalManual(manual) ==
    [version |-> manual.Version,
     tools |-> IF manual.Tools.isNil THEN [json |-> "null", items |-> << >>]
               ELSE [json |-> "array", items |-> manual.Tools.elems]]

(* ----------------------------- package main ---------------------------- *)

\* The provider objects the server can hold: one per env-derived entry and
\* one per file entry.
ServerHeap == [i \in 1..(3 + MaxFileProviders) |-> NoObject]

NoResponse == [status |-> 0, body |-> [version |-> "", tools |-> [json |-> "null", items |-> << >>]]]

InitMain ==
    /\ factories = [x \in {} |-> NoFactory]
    /\ providers = EmptyMap
    /\ mu = [w |-> FALSE, r |-> 0]
    /\ heap = ServerHeap
    /\ frame = [p \in Procs |-> IdleFrame]
    /\ live = EmptyMap
    /\ \E env \in Environments, file \in ConfigFiles :
          srv = [pc |-> "main", env |-> env, file |-> file, cfg |-> NoCfg, err |-> NoError,
                 i |-> 0, attempts |-> << >>, routes |-> {}, response |-> NoResponse]

\* log.Fatal: the message is logged and the process exits with status 1.
Fatal(s, message, err) ==
    [s EXCEPT !.pc = "exit", !.err = [kind |-> message, subject |-> "", cause |-> err]]

\* cfg, err = config.Load(); if err != nil { log.Fatal(...) }
MainLoad ==
    /\ srv.pc = "main"
    /\ LET r == Load(srv.env, srv.file)
       IN  srv' = IF r.err # ""
                  THEN Fatal(srv, "Failed to load configuration:", r.err)
                  ELSE [srv EXCEPT !.pc = "loaded", !.cfg = r.cfg]
    /\ UNCHANGED << factories, providers, mu, heap, frame, live >>

\* if err := cfg.Validate(); err != nil { log.Fatal(...) }
MainValidate ==
    /\ srv.pc = "loaded"
    /\ srv' = IF Validate(srv.cfg) # NoError
              THEN [srv EXCEPT !.pc = "exit", !.err = Validate(srv.cfg)]
              ELSE [srv EXCEPT !.pc = "validated"]
    /\ UNCHANGED << factories, providers, mu, heap, frame, live >>

\* registry = providers.NewRegistry()
MainNewRegistry ==
    /\ srv.pc = "validated"
    /\ factories' = [x \in {} |-> NoFactory]
    /\ providers' = EmptyMap
    /\ live' = EmptyMap
    /\ srv' = [srv EXCEPT !.pc = "registry"]
    /\ UNCHANGED << mu, heap, frame >>

\* The registrations of registerProviderFactories, in its order.
ServerRegistrations ==
    << << "jira", "jira.NewProviderFromConfig" >>, << "wiki", "wiki.NewProviderFromConfig" >>,
       << "confluence", "wiki.NewProviderFromConfig" >>,
       << "gitlab", "gitlab.NewProviderFromConfig" >> >>

\* registerProviderFactories from registration k on: the factory mapping it
\* leaves and the error it returns, that of the first RegisterFactory to fail.
RECURSIVE registerProviderFactories(_, _)
registerProviderFactories(fs, k) ==
    IF k > Len(ServerRegistrations) THEN [factories |-> fs, err |-> NoError]
    ELSE IF RegisterFactoryError(fs, ServerRegistrations[k][1]) # NoError
    THEN [factories |-> fs, err |-> RegisterFactoryError(fs, ServerRegistrations[k][1])]
    ELSE registerProviderFactories(
             RegisteredFactories(fs, ServerRegistrations[k][1], ServerRegistrations[k][2]), k + 1)

MainRegisterProviderFactories ==
    /\ srv.pc = "registry"
    /\ LET r == registerProviderFactories(factories, 1)
       IN  /\ factories' = r.factories
           /\ srv' = IF r.err # NoError
                     THEN Fatal(srv, "Failed to register provider factories:", r.err.kind)
                     ELSE [srv EXCEPT !.pc = "createProviders", !.i = 1]
    /\ UNCHANGED << providers, mu, heap, frame, live >>

\* The map createProviders builds for a provider configuration; a key it does
\* not set is "".
ConfigMap(providerConfig) ==
    LET auth == providerConfig.Auth
    IN  [name |-> providerConfig.Name,
         enabled |-> providerConfig.Enabled,
         base_url |-> providerConfig.BaseURL,
         username |-> IF auth.Type = "basic" THEN auth.Username ELSE "",
         password |-> IF auth.Type = "basic" THEN auth.Password ELSE "",
         api_key |-> IF auth.Type = "api_key" THEN auth.APIKey ELSE "",
         token |-> IF auth.Type = "personal_token" THEN auth.Token ELSE "",
         client_id |-> IF auth.Type = "oauth2" THEN auth.ClientID ELSE "",
         client_secret |-> IF auth.Type = "oauth2" THEN auth.ClientSecret ELSE "",
         token_url |-> IF auth.Type = "oauth2" THEN auth.TokenURL ELSE ""]

\* A whole CreateProvider call of the only goroutine there is at startup: the
\* error it returns, and the instance mapping and the objects it leaves.
CreateProvider(fs, ps, h, name, providerType, config) ==
    LET look == LookupFactory(fs, providerType)
        r == CallFactory(look.factory, InjectName(config, name))
        provider == IF r.isNil THEN NilProvider ELSE NewObject(h)
    IN  IF ~look.exists
        THEN [err |-> ErrUnknownType(providerType), providers |-> ps, heap |-> h]
        ELSE IF FactoryFailed(r)
        THEN [err |-> ErrCreateFailed(name, r.err), providers |-> ps, heap |-> h]
        ELSE [err |-> NoError,
              providers |-> StoredProviders(ps, name, provider),
              heap |-> IF r.isNil THEN h ELSE [h EXCEPT ![provider] = r.obj]]

\* Mutant: the loop of createProviders stops at the first failure.
CreateProvidersNextAbort(i, n, err) == IF err # NoError THEN n + 1 ELSE i + 1

\* The loop of createProviders goes on to the next provider whatever the
\* error of the CreateProvider of provider i of n.
CreateProvidersNext(i, n, err) == i + 1

\* One iteration of the loop of createProviders.
MainCreateProvidersStep ==
    /\ srv.pc = "createProviders"
    /\ srv.i <= Len(srv.cfg.Providers)
    /\ LET providerConfig == srv.cfg.Providers[srv.i]
           r == CreateProvider(factories, providers, heap, providerConfig.Name,
                               providerConfig.Type, ConfigMap(providerConfig))
       IN  /\ providers' = r.providers
           /\ live' = r.providers
           /\ heap' = Collect(r.heap, r.providers, frame, r.providers)
           /\ srv' = [srv EXCEPT
                         !.i = CreateProvidersNext(srv.i, Len(srv.cfg.Providers), r.err),
                         !.attempts = Append(@, [name |-> providerConfig.Name, err |-> r.err])]
    /\ UNCHANGED << factories, mu, frame >>

\* createProviders returns nil; main goes on to the router.
MainCreateProvidersReturn ==
    /\ srv.pc = "createProviders"
    /\ srv.i > Len(srv.cfg.Providers)
    /\ srv' = [srv EXCEPT !.pc = "router"]
    /\ UNCHANGED << factories, providers, mu, heap, frame, live >>

\* r := gin.Default(); r.GET("/utcp", ...); r.GET("/health", ...)
MainRoutes ==
    /\ srv.pc = "router"
    /\ srv' = [srv EXCEPT !.pc = "run", !.routes = {"/utcp", "/health"}]
    /\ UNCHANGED << factories, providers, mu, heap, frame, live >>

\* r.Run(":" + port): it serves, or fails to listen and main calls log.Fatal.
MainRun ==
    /\ srv.pc = "run"
    /\ \E listens \in BOOLEAN :
          srv' = IF listens THEN [srv EXCEPT !.pc = "listening"]
                 ELSE Fatal(srv, "Failed to start server:", "listen")
    /\ UNCHANGED << factories, providers, mu, heap, frame, live >>

\* The loop of handleUTCPDiscovery: AddTool for tool k of tools onwards.
RECURSIVE AddedTools(_, _, _)
AddedTools(manual, tools, k) ==
    IF k > Len(tools) THEN manual ELSE AddedTools(AddTool(manual, tools[k]), tools, k + 1)

\* handleUTCPDiscovery, for the order in which GetAllTools visits the
\* instance mapping: the response c.JSON writes.
DiscoveryResponse(ps, order) ==
    LET tools == AppendedTools(<< >>, EnabledProviders(ps, order), 1)
    IN  [status |-> 200, body |-> MarshalManual(AddedTools(NewManual, tools, 1))]

\* A GET /utcp is served.
HandleUTCPDiscovery ==
    /\ srv.pc = "listening"
    /\ "/utcp" \in srv.routes
    /\ \E order \in Orders(DOMAIN providers) :
          srv' = [srv EXCEPT !.response = DiscoveryResponse(providers, order)]
    /\ UNCHANGED << factories, providers, mu, heap, frame, live >>

NextMain ==
    \/ MainLoad
    \/ MainValidate
    \/ MainNewRegistry
    \/ MainRegisterProviderFactories
    \/ MainCreateProvidersStep
    \/ MainCreateProvidersReturn
    \/ MainRoutes
    \/ MainRun
    \/ HandleUTCPDiscovery

\* The server process from its start, for every environment and config file.
SpecMain == InitMain /\ [][NextMain]_vars

(* ------------------- the server, restarted once ------------------------ *)

\* How an operator changes the credentials between two starts of the server:
\* every credential that is set gets another value, or every credential
\* field gets one.
RotationKinds == {"changed", "filled"}

Rotated(value, kind) ==
    IF kind = "filled" THEN "filled"
    ELSE IF value = "" THEN ""
    ELSE value \o "-2"

\* The credential values of an auth descriptor of the configuration: username,
\* password, API key, token and client secret.
RotatedAuth(auth, kind) ==
    [auth EXCEPT !.Username = Rotated(@, kind), !.Password = Rotated(@, kind),
                 !.APIKey = Rotated(@, kind), !.Token = Rotated(@, kind),
                 !.ClientSecret = Rotated(@, kind)]

RotatedEnv(env, kind) ==
    [env EXCEPT !.JIRA_USERNAME = Rotated(@, kind), !.JIRA_PASSWORD = Rotated(@, kind),
                !.WIKI_API_KEY = Rotated(@, kind), !.GITLAB_TOKEN = Rotated(@, kind)]

RotatedFile(file, kind) ==
    [file EXCEPT !.list = [k \in 1..Len(file.list) |->
                              [file.list[k] EXCEPT !.Auth = RotatedAuth(@, kind)]]]

\* The responses a GET /utcp can get from the server as it stands, one per
\* order in which GetAllTools may visit the instance mapping.
Servable == {DiscoveryResponse(providers, order) : order \in Orders(DOMAIN providers)}

\* Length of the providers list of the config file of a restarted server.
MaxRestartProviders == 1

\* The first start of the server, with the port set in the environment.
InitRestart ==
    /\ factories = [x \in {} |-> NoFactory]
    /\ providers = EmptyMap
    /\ mu = [w |-> FALSE, r |-> 0]
    /\ heap = ServerHeap
    /\ frame = [p \in Procs |-> IdleFrame]
    /\ live = EmptyMap
    /\ \E env \in {e \in Environments : e.PORT # ""},
          file \in {f \in ConfigFiles : Len(f.list) <= MaxRestartProviders} :
          srv = [pc |-> "main", env |-> env, file |-> file, cfg |-> NoCfg, err |-> NoError,
                 i |-> 0, attempts |-> << >>, routes |-> {}, response |-> NoResponse,
                 run |-> 1, servable |-> {}]

\* The serving process is stopped and started again with the same
\* configuration but for the credential values; srv.servable keeps what the
\* stopped process could serve.
MainRestart ==
    /\ srv.pc = "listening"
    /\ srv.run = 1
    /\ srv.response = NoResponse
    /\ \E kind \in RotationKinds :
          srv' = [srv EXCEPT !.pc = "main", !.run = 2, !.servable = Servable,
                             !.env = RotatedEnv(@, kind), !.file = RotatedFile(@, kind),
                             !.cfg = NoCfg, !.i = 0, !.attempts = << >>, !.routes = {}]
    /\ factories' = [x \in {} |-> NoFactory]
    /\ providers' = EmptyMap
    /\ live' = EmptyMap
    /\ heap' = ServerHeap
    /\ UNCHANGED << mu, frame >>

NextRestart ==
    \/ MainLoad
    \/ MainValidate
    \/ MainNewRegistry
    \/ MainRegisterProviderFactories
    \/ MainCreateProvidersStep
    \/ MainCreateProvidersReturn
    \/ MainRoutes
    \/ MainRun
    \/ HandleUTCPDiscovery
    \/ MainRestart

SpecRestart == InitRestart /\ [][NextRestart]_vars

(* ---------------------- package utcp: ToJSON --------------------------- *)

\* Number of AddTool calls on one manual.
MaxTools == 2

\* A Go string as the sequence of its pieces: a run of plain characters, one
\* character that encoding/json escapes, the byte 0xFF (not valid UTF-8), or
\* the replacement rune U+FFFD.
InvalidByte == "<0xFF>"

ReplacementRune == "<U+FFFD>"

GoString(pieces) == pieces

ToolNameStrings ==
    { GoString(<< >>), GoString(<< "test_tool" >>), GoString(<< "a", "<", "b" >>),
      GoString(<< "\"", "q" >>), GoString(<< "bad", InvalidByte >>),
      GoString(<< ReplacementRune >>) }

\* The ToolProvider maps of the tools: one of JSON-encodable values, and one
\* that holds a value encoding/json has no encoding for (a func or a channel).
ToolProviderValues == {"encodable", "unsupported"}

\* The tools a caller passes to AddTool.
Tools ==
    { [name |-> n, tool_provider |-> tp] : n \in ToolNameStrings, tp \in ToolProviderValues }

\* Mutant: the encoder writes an invalid byte through.
EscapedVerbatimInvalid(piece) ==
    IF piece = "<" THEN "\\u003c"
    ELSE IF piece = "\"" THEN "\\\""
    ELSE piece

\* The text encoding/json writes for a piece of a string: HTML characters and
\* quotes escaped, an invalid byte replaced by the escape of U+FFFD.
Escaped(piece) ==
    IF piece = "<" THEN "\\u003c"
    ELSE IF piece = "\"" THEN "\\\""
    ELSE IF piece = InvalidByte THEN "\\ufffd"
    ELSE piece

\* Mutant: the decoder leaves escapes as they are.
UnescapedVerbatim(text) == text

\* The piece a JSON string's text decodes to.
Unescaped(text) ==
    IF text = "\\u003c" THEN "<"
    ELSE IF text = "\\\"" THEN "\""
    ELSE IF text = "\\ufffd" THEN ReplacementRune
    ELSE text

\* A JSON string: the escaped text between its quotes.
MarshalString(str) == [k \in 1..Len(str) |-> Escaped(str[k])]

UnmarshalString(text) == [k \in 1..Len(text) |-> Unescaped(text[k])]

\* json.MarshalIndent fails on a value it cannot encode.
Unsupported(manual) ==
    \E k \in 1..Len(manual.Tools.elems) : manual.Tools.elems[k].tool_provider = "unsupported"

NoJSON == [version |-> << >>, tools |-> [json |-> "null", items |-> << >>]]

\* (m *Manual) ToJSON(): the document and the error ("" for nil).
ToJSON(manual) ==
    IF Unsupported(manual)
    THEN [json |-> NoJSON, err |-> "json: unsupported type"]
    ELSE [json |-> [version |-> MarshalString(manual.Version),
                    tools |-> IF manual.Tools.isNil
                              THEN [json |-> "null", items |-> << >>]
                              ELSE [json |-> "array",
                                    items |-> [k \in 1..Len(manual.Tools.elems) |->
                                                 [name |-> MarshalString(manual.Tools.elems[k].name),
                                                  tool_provider |-> "encodable"]]]],
          err |-> ""]

\* json.Unmarshal([]byte(jsonStr), &parsed) into a zero Manual.
Unmarshal(json) ==
    [Version |-> UnmarshalString(json.version),
     Tools |-> IF json.tools.json = "null" THEN Slice(TRUE, << >>)
               ELSE Slice(FALSE, [k \in 1..Len(json.tools.items) |->
                                    [name |-> UnmarshalString(json.tools.items[k].name),
                                     tool_provider |-> json.tools.items[k].tool_provider]])]

\* NewManual() of this package, its version as a Go string.
NewManualString == [NewManual EXCEPT !.Version = GoString(<< NewManual.Version >>)]

NoManual == [Version |-> GoString(<< >>), Tools |-> Slice(TRUE, << >>)]

\* A caller builds a manual, serializes it and parses the result.
InitJSON ==
    /\ factories = [x \in {} |-> NoFactory]
    /\ providers = EmptyMap
    /\ mu = [w |-> FALSE, r |-> 0]
    /\ heap = ServerHeap
    /\ frame = [p \in Procs |-> IdleFrame]
    /\ live = EmptyMap
    /\ srv = [pc |-> "manual", manual |-> NewManualString, json |-> NoJSON, err |-> "",
              parsed |-> NoManual]

CallAddTool(tool) ==
    /\ srv.pc = "manual"
    /\ Len(srv.manual.Tools.elems) < MaxTools
    /\ srv' = [srv EXCEPT !.manual = AddTool(@, tool)]
    /\ UNCHANGED << factories, providers, mu, heap, frame, live >>

CallToJSON ==
    /\ srv.pc = "manual"
    /\ srv' = [srv EXCEPT !.pc = IF ToJSON(srv.manual).err = "" THEN "json" ELSE "failed",
                          !.json = ToJSON(srv.manual).json, !.err = ToJSON(srv.manual).err]
    /\ UNCHANGED << factories, providers, mu, heap, frame, live >>

CallUnmarshal ==
    /\ srv.pc = "json"
    /\ srv' = [srv EXCEPT !.pc = "parsed", !.parsed = Unmarshal(srv.json)]
    /\ UNCHANGED << factories, providers, mu, heap, frame, live >>

NextJSON ==
    \/ \E tool \in Tools : CallAddTool(tool)
    \/ CallToJSON
    \/ CallUnmarshal

SpecJSON == InitJSON /\ [][NextJSON]_vars

(* ------------------- package utcp: schema properties ------------------- *)

\* An interface{} value: nil, or a value with its dynamic type.
NilInterface == [typ |-> "nil", val |-> ""]

Interface(typ, val) == [typ |-> typ, val |-> val]

\* The defaults a Property is given: none, the falsy values of bool, int and
\* string, and the values the providers' tools declare.
Defaults ==
    { NilInterface, Interface("bool", "false"), Interface("bool", "true"),
      Interface("int", "0"), Interface("int", "50"), Interface("string", ""),
      Interface("string", "main") }

\* Enum: unset, empty, or a list of values.
Enums == { Slice(TRUE, << >>), Slice(FALSE, << >>), Slice(FALSE, << "active", "inactive" >>) }

Properties ==
    { [Type |-> t, Description |-> d, Enum |-> e, Default |-> v] :
        t \in {"string", "integer", "boolean", "array"}, d \in {"", "Starting index"},
        e \in Enums, v \in Defaults }

\* Mutant: omitempty looks through the interface at the value it holds.
IsEmptyValueOfDynamicValue(kind, v) ==
    IF kind = "slice" THEN Len(v.elems) = 0
    ELSE v = NilInterface \/ v.val \in {"false", "0", ""}

\* isEmptyValue of encoding/json by the kind of the field: a slice is empty
\* when its length is 0, an interface when it is nil.
IsEmptyValue(kind, v) ==
    IF kind = "slice" THEN Len(v.elems) = 0
    ELSE v = NilInterface

\* The JSON text of the value an interface holds.
MarshalInterface(v) ==
    IF v.typ = "nil" THEN "null"
    ELSE IF v.typ = "string" THEN "\"" \o v.val \o "\""
    ELSE v.val

Omitted == [present |-> FALSE, text |-> ""]

\* encoding/json of a Property: type and description always, enum and default
\* unless omitempty finds them empty.
MarshalProperty(prop) ==
    [type |-> "\"" \o prop.Type \o "\"",
     description |-> "\"" \o prop.Description \o "\"",
     enum |-> IF IsEmptyValue("slice", prop.Enum) THEN [present |-> FALSE, items |-> << >>]
              ELSE [present |-> TRUE, items |-> prop.Enum.elems],
     default |-> IF IsEmptyValue("interface", prop.Default) THEN Omitted
                 ELSE [present |-> TRUE, text |-> MarshalInterface(prop.Default)]]

NoPropertyJSON ==
    [type |-> "", description |-> "", enum |-> [present |-> FALSE, items |-> << >>],
     default |-> Omitted]

\* A schema property is built and then encoded.
InitProperty ==
    /\ factories = [x \in {} |-> NoFactory]
    /\ providers = EmptyMap
    /\ mu = [w |-> FALSE, r |-> 0]
    /\ heap = ServerHeap
    /\ frame = [p \in Procs |-> IdleFrame]
    /\ live = EmptyMap
    /\ \E prop \in Properties :
          srv = [pc |-> "property", property |-> prop, json |-> NoPropertyJSON]

CallMarshalProperty ==
    /\ srv.pc = "property"
    /\ srv' = [srv EXCEPT !.pc = "marshaled", !.json = MarshalProperty(srv.property)]
    /\ UNCHANGED << factories, providers, mu, heap, frame, live >>

NextProperty == CallMarshalProperty

SpecProperty == InitProperty /\ [][NextProperty]_vars

(* ------------------------------- claims -------------------------------- *)

\* A call of `op` by p has just produced its results.
Ret(p, op) == frame[p].pc = "ret" /\ frame[p].op = op

\* p takes a step.
Step(p) == frame'[p] # frame[p]

\* C1: GetProvider(name) returns (instance, true) exactly when a
\* CreateProvider(name, ...) has succeeded since the last Clear, and the
\* instance is the one of the latest such CreateProvider; for any other name
\* it returns (nil, false).  The instance mapping holds exactly the names
\* created since the last Clear: a name leaves it only through Clear.
C1_GetProviderReturnsLatest ==
    /\ \A p \in Procs :
          Ret(p, "GetProvider") =>
             /\ frame[p].exists = (frame[p].name \in DOMAIN live)
             /\ frame[p].exists => frame[p].provider = live[frame[p].name]
             /\ ~frame[p].exists => frame[p].provider = NilProvider
             /\ frame[p].err = NoError
    /\ DOMAIN providers = DOMAIN live
    /\ \A n \in DOMAIN live : providers[n] = live[n]

\* GetProvider has returned an allocated instance for one name while the other
\* name, never created since the last Clear, is absent.
C1_Witness ==
    \E p \in Procs :
       /\ Ret(p, "GetProvider")
       /\ frame[p].exists
       /\ frame[p].provider # NilProvider
       /\ DOMAIN providers = {frame[p].name}

\* C2: a RegisterFactory for a tag that is already registered returns an error
\* and leaves the factory registered first bound to the tag: no step rebinds or
\* removes a registered tag, and the factory a CreateProvider is about to run
\* is the one bound to its tag.
C2_DuplicateRegistrationKeepsFirst ==
    [][ /\ \A p \in Procs :
              (frame[p].pc = "rf_locked" /\ Step(p) /\ frame[p].typ \in DOMAIN factories) =>
                 /\ frame'[p].pc = "ret"
                 /\ frame'[p].err = ErrAlreadyRegistered(frame[p].typ)
                 /\ factories' = factories
        /\ \A p \in Procs :
              (frame[p].pc = "rf_locked" /\ Step(p) /\ frame[p].typ \notin DOMAIN factories) =>
                 /\ frame'[p].err = NoError
                 /\ factories'[frame[p].typ] = frame[p].factory
        /\ \A t \in DOMAIN factories :
              t \in DOMAIN factories' /\ factories'[t] = factories[t]
        /\ \A p \in Procs :
              frame'[p].pc = "cp_factory" =>
                 /\ frame'[p].typ \in DOMAIN factories'
                 /\ frame'[p].factory = factories'[frame'[p].typ]
      ]_vars

\* A duplicate registration with another factory has failed, and the tag is
\* still bound to the factory registered first.
C2_Witness ==
    \E p \in Procs :
       /\ Ret(p, "RegisterFactory")
       /\ frame[p].err = ErrAlreadyRegistered("jira")
       /\ frame[p].factory = "nilnil"
       /\ factories["jira"] = "jira.NewProviderFromConfig"

\* C3 as claimed: a CreateProvider whose type has no registered factory fails
\* with the unknown-type error, and GetProvider(name) is not-found afterwards.
C3_UnknownTypeThenNotFound ==
    \A p \in Procs :
       (Ret(p, "CreateProvider") /\ frame[p].typ \notin DOMAIN factories) =>
          /\ frame[p].err = ErrUnknownType(frame[p].typ)
          /\ ~MapLookup(providers, frame[p].name).exists

\* C3, amended: a CreateProvider whose type has no registered factory fails
\* with the unknown-type error and no step of it changes the instance mapping,
\* so GetProvider(name) returns afterwards what it returned before the call:
\* not-found unless an instance was already stored under the name.
C3_UnknownTypeLeavesMapping ==
    [][ \A p \in Procs :
           /\ (Step(p) /\ frame'[p].pc = "cp_rlocked") => providers' = providers
           /\ (Step(p) /\ frame[p].pc = "cp_rlocked" /\ frame[p].typ \notin DOMAIN factories) =>
                 /\ frame'[p].pc = "ret"
                 /\ frame'[p].err = ErrUnknownType(frame[p].typ)
                 /\ providers' = providers
                 /\ MapLookup(providers', frame[p].name) = MapLookup(providers, frame[p].name)
      ]_vars

\* A CreateProvider of an unregistered type has failed for a name under which
\* an instance is stored.
C3_Witness ==
    \E p \in Procs :
       /\ Ret(p, "CreateProvider")
       /\ frame[p].err = ErrUnknownType("test")
       /\ frame[p].name \in DOMAIN providers
       /\ providers[frame[p].name] # NilProvider

\* C4: when the factory returns an error, CreateProvider returns an error that
\* names the instance and wraps the factory's error, and the instance mapping
\* is what it was: no step of a CreateProvider other than its store changes
\* it, and the failing call returns without reaching the store.
C4_FactoryErrorLeavesMapping ==
    [][ \A p \in Procs :
           /\ (Step(p) /\ frame[p].op = "CreateProvider" /\ frame[p].pc # "cp_locked") =>
                 providers' = providers
           /\ (Step(p) /\ frame[p].pc = "cp_factory"
                 /\ CallFactory(frame[p].factory, InjectName(frame[p].config, frame[p].name)).err # "") =>
                 /\ frame'[p].pc = "ret"
                 /\ frame'[p].err.subject = frame[p].name
                 /\ frame'[p].err.cause =
                       CallFactory(frame[p].factory, InjectName(frame[p].config, frame[p].name)).err
                 /\ frame'[p].err.kind = "failed to create provider %s: %w"
                 /\ providers' = providers
                 /\ MapLookup(providers', frame[p].name) = MapLookup(providers, frame[p].name)
      ]_vars

\* A CreateProvider has failed in its factory for a name under which an
\* instance is stored, and the instance is still there.
C4_Witness ==
    \E p \in Procs :
       /\ Ret(p, "CreateProvider")
       /\ frame[p].err = ErrCreateFailed(frame[p].name, "base_url is required")
       /\ MapLookup(providers, frame[p].name).exists
       /\ MapLookup(providers, frame[p].name).provider # NilProvider

\* C5: the store of a successful CreateProvider binds name to the provider the
\* call built, which is none of the instances stored before, keeps every other
\* name bound to the instance it had, adds no other name, and leaves the
\* factory mapping unchanged.
C5_StoreReplacesOnlyName ==
    [][ \A p \in Procs :
           (Step(p) /\ frame[p].pc = "cp_locked") =>
              /\ frame'[p].pc = "ret"
              /\ frame'[p].err = NoError
              /\ DOMAIN providers' = DOMAIN providers \cup {frame[p].name}
              /\ providers'[frame[p].name] = frame[p].provider
              /\ frame[p].provider # NilProvider => frame[p].provider \notin Range(providers)
              /\ \A n \in DOMAIN providers \ {frame[p].name} : providers'[n] = providers[n]
              /\ factories' = factories
      ]_vars

\* A CreateProvider has stored its provider while the other name keeps its own.
C5_Witness ==
    \E p \in Procs :
       /\ Ret(p, "CreateProvider")
       /\ frame[p].err = NoError
       /\ DOMAIN providers = Names
       /\ providers[frame[p].name] = frame[p].provider
       /\ \A n \in Names : providers[n] # NilProvider
       /\ \A n \in Names \ {frame[p].name} : providers[n] # frame[p].provider

\* s lists every element of the set S once.
Enumerates(s, S) ==
    /\ Range(s) = S
    /\ \A i, j \in DOMAIN s : i # j => s[i] # s[j]

\* C6: GetEnabledProviders returns exactly the providers of GetAllProviders
\* whose IsEnabled() is true when it is called: every enabled one once, no
\* disabled one, whatever the enabled flags were when the providers were built.
C6_EnabledIsFilterOfAll ==
    \A p \in Procs :
       Ret(p, "GetEnabledProviders") =>
          /\ \A order \in Orders(DOMAIN providers) :
                Enumerates(frame[p].list,
                           {x \in Range(AllProviders(providers, order)) : heap[x].enabled})
          /\ \A x \in Range(providers) : heap[x].enabled <=> x \in Range(frame[p].list)

\* GetEnabledProviders has returned one of two stored providers: the other is
\* disabled.
C6_Witness ==
    \E p \in Procs :
       /\ Ret(p, "GetEnabledProviders")
       /\ DOMAIN providers = Names
       /\ Len(frame[p].list) = 1
       /\ \E n \in Names : ~heap[providers[n]].enabled

\* The number of tools the providers list[1..k-1] emit.
RECURSIVE ToolOffset(_, _)
ToolOffset(list, k) ==
    IF k <= 1 THEN 0 ELSE ToolOffset(list, k - 1) + Len(GetTools(list[k - 1]))

ToolsAreConcatenation(list, tools) ==
    /\ Len(tools) = ToolOffset(list, Len(list) + 1)
    /\ \A k \in 1..Len(list) :
          \A j \in 1..Len(GetTools(list[k])) :
             tools[ToolOffset(list, k) + j] = GetTools(list[k])[j]
    /\ \A x \in 1..Len(tools) : tools[x].owner \in Range(list)

\* C7: GetAllTools snapshots exactly the enabled providers, each once, and
\* returns the concatenation of their GetTools() results in snapshot order:
\* each provider's tools contiguous and in emission order, the length the sum
\* of the tool counts (nothing deduplicated), no tool of any other provider.
C7_ToolsOfEnabledConcatenated ==
    [][ \A p \in Procs :
           /\ (Step(p) /\ frame[p].pc = "gt_rlocked" /\ frame'[p].pc # "panic") =>
                 /\ frame'[p].pc = "gt_loop"
                 /\ Enumerates(frame'[p].list, {x \in Range(providers) : heap[x].enabled})
           /\ (Step(p) /\ frame[p].pc = "gt_loop") =>
                 /\ frame'[p].pc = "ret"
                 /\ frame'[p].list = frame[p].list
                 /\ ToolsAreConcatenation(frame[p].list, frame'[p].tools)
      ]_vars

\* GetAllTools has returned the tools of two enabled providers of the same
\* type: every tool name occurs twice.
C7_Witness ==
    \E p \in Procs :
       /\ Ret(p, "GetAllTools")
       /\ Len(frame[p].list) = 2
       /\ Len(frame[p].tools) = 2 * Len(JiraToolNames)
       /\ frame[p].tools[1].name = frame[p].tools[1 + Len(JiraToolNames)].name
       /\ frame[p].tools[1].owner # frame[p].tools[1 + Len(JiraToolNames)].owner

\* C8: Clear empties the instance mapping and leaves the factory mapping as it
\* was, so that afterwards every name is not-found, GetAllProviders returns
\* nothing, a registration of a registered tag still fails and a lookup of it
\* still finds its factory; only a RegisterFactory changes the factory mapping.
C8_ClearKeepsFactories ==
    [][ /\ \A p \in Procs :
              (Step(p) /\ frame[p].pc = "cl_locked") =>
                 /\ frame'[p].pc = "ret"
                 /\ DOMAIN providers' = {}
                 /\ \A n \in Names : ~MapLookup(providers', n).exists
                 /\ \A order \in Orders(DOMAIN providers') : AllProviders(providers', order) = << >>
                 /\ factories' = factories
                 /\ \A t \in DOMAIN factories :
                       /\ RegisterFactoryError(factories', t) = ErrAlreadyRegistered(t)
                       /\ LookupFactory(factories', t) = [factory |-> factories[t], exists |-> TRUE]
        /\ factories' # factories =>
              \E p \in Procs : Step(p) /\ frame[p].pc = "rf_locked"
      ]_vars

\* Clear has returned with a factory registered, while another goroutine still
\* holds a provider that was stored before.
C8_Witness ==
    \E p, q \in Procs :
       /\ Ret(p, "Clear")
       /\ DOMAIN providers = {}
       /\ "jira" \in DOMAIN factories
       /\ frame[q].pc = "gt_loop"
       /\ Len(frame[q].list) > 0

\* No call is in progress.
AllReturned == \A p \in Procs : frame[p].pc \in {"idle", "ret"}

\* C9: whatever the interleaving of CreateProvider calls with each other and
\* with GetAllProviders and GetEnabledProviders, once every call has returned
\* GetAllProviders reports one instance per name created (since the last
\* Clear), the one its CreateProvider built, and instances of distinct names
\* are distinct; a reader only ever gets instances that were registered.
C9_NoLostRegistration ==
    /\ AllReturned =>
          \A order \in Orders(DOMAIN providers) :
             LET all == AllProviders(providers, order)
             IN  /\ Len(all) = Cardinality(DOMAIN live)
                 /\ \A n \in DOMAIN live : \E k \in 1..Len(all) : order[k] = n /\ all[k] = live[n]
                 /\ \A i, j \in 1..Len(all) :
                       (i # j /\ all[i] # NilProvider) => all[i] # all[j]
    /\ \A p \in Procs :
          (Ret(p, "GetAllProviders") \/ Ret(p, "GetEnabledProviders")) =>
             /\ Len(frame[p].list) <= Cardinality(DOMAIN live)
             /\ \A k \in 1..Len(frame[p].list) :
                   \E n \in DOMAIN live : frame[p].list[k] = live[n]

\* GetAllProviders has returned the one instance registered so far while a
\* concurrent CreateProvider for the other name has built its provider and not
\* yet stored it.
C9_Witness ==
    \E p, q \in Procs :
       /\ Ret(q, "GetAllProviders")
       /\ Len(frame[q].list) = 1
       /\ frame[q].list[1] # NilProvider
       /\ frame[p].pc = "cp_lockwait"
       /\ frame[p].provider # NilProvider
       /\ frame[p].name \notin DOMAIN providers

InRead(p) ==
    frame[p].pc \in {"cp_rlocked", "gp_rlocked", "ga_rlocked", "ge_rlocked", "gt_rlocked"}

InWrite(p) == frame[p].pc \in {"rf_locked", "cp_locked", "cl_locked"}

\* C10: while a goroutine is in a section that writes one of the two mappings,
\* no other goroutine is in a section that reads or writes them; readers
\* overlap only with readers, and the mutex counts exactly the goroutines in
\* the sections.
C10_WritersExclusive ==
    /\ \A p, q \in Procs :
          (p # q /\ InWrite(p)) => (~InRead(q) /\ ~InWrite(q))
    /\ mu.w = (\E p \in Procs : InWrite(p))
    /\ mu.r = Cardinality({p \in Procs : InRead(p)})

\* A writer is in its section while the other goroutine waits for the mutex
\* with a provider to store.
C10_Witness ==
    \E p, q \in Procs :
       /\ frame[p].pc = "cl_locked"
       /\ frame[q].pc = "cp_lockwait"

\* p is in a CreateProvider after its factory lookup and before its store.
BetweenLookupAndStore(p) == frame[p].pc \in {"cp_factory", "cp_lockwait"}

\* C11 as claimed: from its factory lookup until its store a CreateProvider
\* blocks every other writer and every reader, so that no other registry
\* operation takes effect in between: in particular, while a CreateProvider
\* is between its lookup and its store, no step of another goroutine changes
\* the factory mapping or the instance mapping.
C11_CreateProviderOneExclusiveWrite ==
    [][ \A p \in Procs :
           (BetweenLookupAndStore(p) /\ ~Step(p)) =>
              (factories' = factories /\ providers' = providers)
      ]_vars

\* C11, amended: CreateProvider takes the mutex twice.  It looks the factory
\* up under the read lock, which admits other readers and no writer; it runs
\* the factory holding nothing, so that the mutex is then held by the other
\* goroutines only; it stores under the write lock, which excludes every other
\* reader and writer.  The tag it found registered is still registered when it
\* stores.
C11_CreateProviderLocksTwice ==
    [][ \A p \in Procs :
           /\ frame[p].pc = "cp_rlocked" =>
                 (mu.r >= 1 /\ ~mu.w /\ \A q \in Procs \ {p} : ~InWrite(q))
           /\ (Step(p) /\ frame[p].pc = "cp_rlocked") =>
                 (mu'.r = mu.r - 1 /\ frame'[p].pc \in {"cp_factory", "ret"})
           /\ BetweenLookupAndStore(p) =>
                 /\ mu.w = (\E q \in Procs \ {p} : InWrite(q))
                 /\ mu.r = Cardinality({q \in Procs \ {p} : InRead(q)})
                 /\ frame[p].typ \in DOMAIN factories
           /\ (Step(p) /\ frame[p].pc = "cp_lockwait") =>
                 (frame'[p].pc = "cp_locked" /\ mu.r = 0 /\ ~mu.w /\ mu'.w)
           /\ frame[p].pc = "cp_locked" =>
                 /\ mu.w /\ mu.r = 0
                 /\ \A q \in Procs \ {p} : ~InRead(q) /\ ~InWrite(q)
                 /\ frame[p].typ \in DOMAIN factories
           /\ (Step(p) /\ frame[p].pc = "cp_locked") => ~mu'.w
      ]_vars

\* Between the lookup and the store of a CreateProvider, another CreateProvider
\* of the same name has stored its provider and is returning.
C11_Witness ==
    \E p, q \in Procs :
       /\ p # q
       /\ frame[p].pc = "cp_lockwait"
       /\ frame[p].provider # NilProvider
       /\ Ret(q, "CreateProvider")
       /\ frame[q].err = NoError
       /\ frame[q].name = frame[p].name
       /\ providers[frame[q].name] = frame[q].provider

\* C12: GetAllTools holds the mutex only while it snapshots the enabled
\* providers.  The snapshot step releases its read lock before any GetTools()
\* has been called; from then until the call returns the goroutine holds
\* nothing and takes nothing, so that a writer is admitted whenever no other
\* goroutine is in a section.
C12_GetAllToolsReleasesBeforeTools ==
    [][ \A p \in Procs :
           /\ (Step(p) /\ frame[p].pc = "gt_rlocked") =>
                 /\ mu'.r = mu.r - 1
                 /\ ~mu'.w
                 /\ frame'[p].pc \in {"gt_loop", "panic"}
                 /\ frame'[p].tools = << >>
           /\ frame[p].pc = "gt_loop" =>
                 /\ frame[p].tools = << >>
                 /\ mu.r = Cardinality({q \in Procs \ {p} : InRead(q)})
                 /\ mu.w = (\E q \in Procs \ {p} : InWrite(q))
                 /\ (\A q \in Procs \ {p} : ~InRead(q) /\ ~InWrite(q)) => CanLock
           /\ (Step(p) /\ frame[p].pc = "gt_loop") =>
                 (mu' = mu /\ frame'[p].pc = "ret")
           /\ (frame[p].pc = "gt_loop" /\ ~Step(p)) => frame'[p].pc = "gt_loop"
      ]_vars

\* A writer is in its section while a GetAllTools that has taken a snapshot
\* of a provider has not yet listed its tools.
C12_Witness ==
    \E p, q \in Procs :
       /\ frame[p].pc = "gt_loop"
       /\ Len(frame[p].list) > 0
       /\ frame[q].pc \in {"cp_locked", "cl_locked"}
       /\ mu.w

\* C13: CreateProvider calls of the same name each store under the write
\* lock, one after the other: a store over an instance of that name replaces
\* it by the instance the storing call built, the replaced instance is stored
\* nowhere afterwards, and no second entry of the name appears.  Hence the
\* name is bound to the instance of the call that took the write lock last,
\* which is what the mapping holds once all calls have returned.
C13_LastWriterWins ==
    [][ /\ \A p \in Procs :
              (Step(p) /\ frame[p].pc = "cp_locked" /\ frame[p].name \in DOMAIN providers) =>
                 /\ providers'[frame[p].name] = frame[p].provider
                 /\ live'[frame[p].name] = frame[p].provider
                 /\ DOMAIN providers' = DOMAIN providers
                 /\ providers[frame[p].name] # NilProvider =>
                       /\ providers[frame[p].name] # frame[p].provider
                       /\ providers[frame[p].name] \notin Range(providers')
        /\ \A p \in Procs :
              (Step(p) /\ frame[p].pc = "cp_lockwait") =>
                 (live' = live /\ providers' = providers)
        /\ AllReturned' =>
              \A n \in DOMAIN live' :
                 /\ n \in DOMAIN providers'
                 /\ providers'[n] = live'[n]
                 /\ Cardinality({m \in DOMAIN providers' : m = n}) = 1
      ]_vars

\* Two CreateProvider calls of one name have both built a provider; one has
\* stored its own and is returning, the other waits for the write lock.
C13_Witness ==
    \E p, q \in Procs :
       /\ Ret(p, "CreateProvider")
       /\ frame[p].err = NoError
       /\ frame[p].provider # NilProvider
       /\ providers[frame[p].name] = frame[p].provider
       /\ frame[q].pc = "cp_lockwait"
       /\ frame[q].name = frame[p].name
       /\ frame[q].provider \notin {NilProvider, frame[p].provider}

(* --------------------- claims: configuration, main --------------------- *)

\* The auth kinds of the configuration model and what each requires.
AuthKinds == {"basic", "api_key", "personal_token", "oauth2"}

RequiredFilled(auth, kind) ==
    IF kind = "basic" THEN auth.Username # "" /\ auth.Password # ""
    ELSE IF kind = "api_key" THEN auth.APIKey # ""
    ELSE IF kind = "personal_token" THEN auth.Token # ""
    ELSE auth.ClientID # "" /\ auth.ClientSecret # "" /\ auth.TokenURL # ""

\* The auth descriptor declares one of the four kinds and lacks a field of it.
LacksRequired(auth) == \E kind \in AuthKinds : auth.Type = kind /\ ~RequiredFilled(auth, kind)

InvalidProvider(p) ==
    \/ p.Name = ""
    \/ p.Type = ""
    \/ p.Enabled /\ p.BaseURL = ""
    \/ p.Enabled /\ LacksRequired(p.Auth)

InvalidConfig(c) ==
    \/ c.Server.Port = ""
    \/ \E k \in 1..Len(c.Providers) : InvalidProvider(c.Providers[k])

\* main is past its call of Validate, which returned an error / returned nil.
ValidateFailed ==
    srv.pc = "exit" /\ srv.err.kind \in {"server port is required", "provider %s: %w"}

ValidateSucceeded ==
    \/ srv.pc \in {"validated", "registry", "createProviders", "router", "run", "listening"}
    \/ srv.pc = "exit" /\ srv.err.kind \in {"Failed to start server:",
                                            "Failed to register provider factories:"}

\* C14: Validate returns an error exactly when the server port is empty, or a
\* provider has an empty name or type, or an enabled provider has an empty
\* base URL or lacks a required field of the auth kind it declares (basic,
\* api_key, personal_token, oauth2); and a provider that is enabled, named,
\* typed, has a base URL and declares basic auth with an empty username is
\* rejected with the message "username and password required for basic auth".
C14_ValidateExactly ==
    [][ srv.pc = "loaded" =>
           /\ (srv'.pc = "exit") = InvalidConfig(srv.cfg)
           /\ (srv'.pc # "exit") => (srv'.pc = "validated" /\ srv'.err = NoError)
           /\ (srv'.pc = "exit") => srv'.err # NoError
           /\ \A k \in 1..Len(srv.cfg.Providers) :
                 LET p == srv.cfg.Providers[k]
                 IN  (/\ srv.cfg.Server.Port # ""
                      /\ \A j \in 1..(k - 1) : ~InvalidProvider(srv.cfg.Providers[j])
                      /\ p.Name # "" /\ p.Type # "" /\ p.Enabled /\ p.BaseURL # ""
                      /\ p.Auth.Type = "basic" /\ p.Auth.Username = "") =>
                        /\ srv'.pc = "exit"
                        /\ srv'.err.cause = "username and password required for basic auth"
      ]_vars

\* Validate has rejected a configuration whose only provider is the Jira
\* entry with basic auth and an empty username.
C14_Witness ==
    /\ ValidateFailed
    /\ Len(srv.cfg.Providers) = 1
    /\ srv.cfg.Providers[1].Name = "jira"
    /\ srv.cfg.Providers[1].Auth.Type = "basic"
    /\ srv.cfg.Providers[1].Auth.Username = ""
    /\ srv.cfg.Providers[1].Auth.Password # ""
    /\ srv.err.cause = "username and password required for basic auth"

C16_EnabledAuthComplete ==
    ValidateSucceeded =>
       \A k \in 1..Len(srv.cfg.Providers) :
          srv.cfg.Providers[k].Enabled =>
             \E kind \in AuthKinds :
                /\ srv.cfg.Providers[k].Auth.Type = kind
                /\ RequiredFilled(srv.cfg.Providers[k].Auth, kind)

\* Load returned an error for the server's environment and config file.
LoadFailed == srv.file.status = "unparsable" \/ srv.file.providers = "undecodable"

\* Nothing of the server exists: no route, no factory, no provider, no attempt
\* to create one, no response.
NothingServed ==
    /\ srv.routes = {}
    /\ DOMAIN factories = {}
    /\ DOMAIN providers = {}
    /\ srv.attempts = << >>
    /\ srv.response = NoResponse

\* C17: main listens only after Load and Validate have both succeeded, and
\* when one of them returns an error the process exits with no route
\* registered and no provider created; nothing is registered, created or
\* served before both have succeeded.
C17_ServesOnlyValidConfiguration ==
    /\ (srv.pc = "listening" \/ ~NothingServed) =>
          /\ ~LoadFailed
          /\ ~InvalidConfig(srv.cfg)
          /\ srv.cfg.Server.Port # ""
    /\ (srv.pc # "main" /\ LoadFailed) => (srv.pc = "exit" /\ NothingServed)
    /\ (srv.pc \notin {"main", "loaded"} /\ ~LoadFailed /\ InvalidConfig(srv.cfg)) =>
          (srv.pc = "exit" /\ NothingServed)
    /\ srv.pc \in {"main", "loaded", "validated"} => NothingServed

\* The server listens with a provider created, after a valid configuration
\* read from the environment and a config file.
C17_Witness ==
    /\ srv.pc = "listening"
    /\ srv.file.status = "ok"
    /\ Len(srv.file.list) > 0
    /\ Len(srv.cfg.Providers) > 1
    /\ DOMAIN providers # {}
    /\ srv.routes = {"/utcp", "/health"}

\* C18: createProviders calls CreateProvider for every configured provider in
\* list order and goes on after a failure: each iteration moves to the next
\* provider and keeps what is stored; when it returns, one attempt per provider
\* has been made in list order, every provider whose CreateProvider succeeded
\* is stored under its name, and main goes on to the router: it returns nil.
C18_CreateProvidersContinues ==
    [][ /\ (srv.pc = "createProviders" /\ srv.i <= Len(srv.cfg.Providers)) =>
              /\ srv'.pc = "createProviders"
              /\ srv'.i = srv.i + 1
              /\ Len(srv'.attempts) = srv.i
              /\ srv'.attempts[srv.i].name = srv.cfg.Providers[srv.i].Name
              /\ \A n \in DOMAIN providers : n \in DOMAIN providers' /\ providers'[n] = providers[n]
              /\ srv'.attempts[srv.i].err = NoError =>
                    /\ srv.cfg.Providers[srv.i].Name \in DOMAIN providers'
                    /\ heap'[providers'[srv.cfg.Providers[srv.i].Name]].name =
                          srv.cfg.Providers[srv.i].Name
        /\ (srv.pc = "createProviders" /\ srv.i > Len(srv.cfg.Providers)) =>
              /\ srv'.pc = "router"
              /\ srv'.err = NoError
              /\ Len(srv.attempts) = Len(srv.cfg.Providers)
              /\ \A k \in 1..Len(srv.attempts) :
                    /\ srv.attempts[k].name = srv.cfg.Providers[k].Name
                    /\ srv.attempts[k].err = NoError =>
                          /\ srv.attempts[k].name \in DOMAIN providers'
                          /\ heap'[providers'[srv.attempts[k].name]].name = srv.attempts[k].name
      ]_vars

\* createProviders has returned after a success, a failure and another
\* success, in that order, and both providers are stored.
C18_Witness ==
    /\ srv.pc = "router"
    /\ \E k, l, m \in 1..Len(srv.attempts) :
          /\ k < l /\ l < m
          /\ srv.attempts[k].err = NoError
          /\ srv.attempts[l].err # NoError
          /\ srv.attempts[m].err = NoError
          /\ {srv.attempts[k].name, srv.attempts[m].name} \subseteq DOMAIN providers
          /\ srv.attempts[l].name \notin DOMAIN providers

\* The entries Load derives from the environment, each when its base URL is set.
JiraEntry(env) ==
    ProviderConfig("jira", "jira", TRUE, env.JIRA_BASE_URL,
                   AuthConfig("basic", env.JIRA_USERNAME, env.JIRA_PASSWORD, "", "", "", "", ""))

WikiEntry(env) ==
    ProviderConfig("wiki", "confluence", TRUE, env.WIKI_BASE_URL,
                   AuthConfig("api_key", "", "", env.WIKI_API_KEY, "", "", "", ""))

GitlabEntry(env) ==
    ProviderConfig("gitlab", "gitlab", TRUE, env.GITLAB_BASE_URL,
                   AuthConfig("personal_token", "", "", "", env.GITLAB_TOKEN, "", "", ""))

EnvEntries(env) ==
    (IF env.JIRA_BASE_URL # "" THEN {JiraEntry(env)} ELSE {})
        \cup (IF env.WIKI_BASE_URL # "" THEN {WikiEntry(env)} ELSE {})
        \cup (IF env.GITLAB_BASE_URL # "" THEN {GitlabEntry(env)} ELSE {})

\* C19: in the list Load returns, the environment-derived entries come first,
\* each present once and unchanged; every entry after them is an entry of the
\* config file, unchanged, whose name no environment-derived entry uses; no
\* entry is a mixture of the two; and no name occurs twice.
C19_EnvEntriesWin ==
    (srv.pc = "loaded") =>
       LET list == srv.cfg.Providers
           n == Cardinality(EnvEntries(srv.env))
       IN  /\ Len(list) >= n
           /\ {list[k] : k \in 1..n} = EnvEntries(srv.env)
           /\ \A k \in (n + 1)..Len(list) :
                 /\ srv.file.providers = "list"
                 /\ list[k] \in Range(srv.file.list)
                 /\ \A e \in EnvEntries(srv.env) : e.Name # list[k].Name
           /\ \A k \in 1..Len(list) : list[k] \in EnvEntries(srv.env) \cup Range(srv.file.list)
           /\ \A j, k \in 1..Len(list) : j # k => list[j].Name # list[k].Name

\* Load has returned the Jira entry of the environment and one file entry; the
\* file's own entry named jira, with another URL and no username, is dropped.
C19_Witness ==
    /\ srv.pc = "loaded"
    /\ Len(srv.cfg.Providers) = 2
    /\ srv.cfg.Providers[1] = JiraEntry(srv.env)
    /\ srv.cfg.Providers[1].Auth.Username = "testuser"
    /\ srv.cfg.Providers[2].Name = "tracker"
    /\ \E k \in 1..Len(srv.file.list) :
          /\ srv.file.list[k].Name = "jira"
          /\ srv.file.list[k].BaseURL # srv.env.JIRA_BASE_URL

\* C20: every discovery response is the manual of that request: status 200, a
\* body with the two fields version and tools, the version of NewManual, and
\* as tools an array (never null, also when it is empty) holding exactly the
\* tools of the providers enabled at the request, provider by provider in one
\* order of the providers, each provider's tools in its emission order.
C20_DiscoveryResponseIsFreshManual ==
    (srv.response # NoResponse) =>
       /\ srv.pc = "listening"
       /\ srv.response.status = 200
       /\ DOMAIN srv.response.body = {"version", "tools"}
       /\ srv.response.body.version = "0.1.0"
       /\ srv.response.body.tools.json = "array"
       /\ \E order \in Orders(DOMAIN providers) :
             LET list == SelectSeq(AllProviders(providers, order),
                                   LAMBDA x : heap[x].enabled)
             IN  ToolsAreConcatenation(list, srv.response.body.tools.items)
       /\ ({x \in Range(providers) : heap[x].enabled} = {}) =>
             srv.response.body.tools.items = << >>

\* A discovery response carries the tools of two enabled providers of
\* different types while a third, disabled provider is stored.
C20_Witness ==
    /\ srv.response # NoResponse
    /\ Cardinality({x \in Range(providers) : heap[x].enabled}) = 2
    /\ \E x \in Range(providers) : ~heap[x].enabled
    /\ Len(srv.response.body.tools.items) = Len(JiraToolNames) + Len(GitlabToolNames)

\* The names of the tools of a served manifest, in order.
ResponseToolNames == [k \in 1..Len(srv.response.body.tools.items) |->
                         srv.response.body.tools.items[k].name]

\* C21: in every manifest the discovery handler serves, no two tools have the
\* same name.
C21_ToolNamesUnique ==
    srv.response.status = 200 =>
       \A i, j \in 1..Len(ResponseToolNames) :
          i # j => ResponseToolNames[i] # ResponseToolNames[j]

\* The environment variables that hold credentials.
CredentialVars == {"JIRA_USERNAME", "JIRA_PASSWORD", "WIKI_API_KEY", "GITLAB_TOKEN"}

Placeholders == {"$" \o n : n \in CredentialVars}

\* Every secret of an auth descriptor of a manifest is a placeholder.
HoldsPlaceholders(auth) ==
    IF auth.auth_type = "basic"
    THEN auth.username \in Placeholders /\ auth.password \in Placeholders
    ELSE IF auth.auth_type = "api_key" THEN auth.api_key \in Placeholders
    ELSE IF auth.auth_type = "personal_token" THEN auth.token \in Placeholders
    ELSE FALSE

\* A response as it goes over the wire: the tools without the model's note of
\* the object that emitted them.
Wire(response) ==
    [status |-> response.status,
     version |-> response.body.version,
     json |-> response.body.tools.json,
     tools |-> [k \in 1..Len(response.body.tools.items) |->
                   [name |-> response.body.tools.items[k].name,
                    tool_provider |-> response.body.tools.items[k].tool_provider]]]

\* C22: the manifest does not depend on credential values.  Every auth
\* descriptor of a served manifest holds "$" and the name of an environment
\* variable in place of each secret; and a server started again with a
\* configuration that is accepted and differs only in credential values can
\* serve exactly the manifests it could serve before, and serves one of them.
C22_ManifestIndependentOfCredentials ==
    /\ srv.response.status = 200 =>
          \A k \in 1..Len(srv.response.body.tools.items) :
             HoldsPlaceholders(srv.response.body.tools.items[k].tool_provider.auth)
    /\ (srv.run = 2 /\ srv.pc = "listening") =>
          /\ {Wire(r) : r \in Servable} = {Wire(r) : r \in srv.servable}
          /\ srv.response.status = 200 => Wire(srv.response) \in {Wire(r) : r \in srv.servable}

\* The restarted server, whose enabled Jira instance holds a changed password
\* and whose enabled GitLab instance holds a changed token, has served a
\* manifest with the tools of both.
C22_Witness ==
    /\ srv.run = 2
    /\ srv.response.status = 200
    /\ Len(srv.response.body.tools.items) = Len(JiraToolNames) + Len(GitlabToolNames)
    /\ \E x \in Range(providers) :
          heap[x].enabled /\ heap[x].password = Rotated("testpass", "changed")
    /\ \E x \in Range(providers) :
          heap[x].enabled /\ heap[x].token = Rotated("gitlab-token-456", "changed")

\* The names of the tools of a manual, in order.
NamesOf(manual) == [k \in 1..Len(manual.Tools.elems) |-> manual.Tools.elems[k].name]

\* Serializing and parsing has given back the version, the number of tools
\* and the tool names in order.
RoundTripped ==
    /\ srv.pc = "parsed"
    /\ srv.parsed.Version = srv.manual.Version
    /\ Len(srv.parsed.Tools.elems) = Len(srv.manual.Tools.elems)
    /\ NamesOf(srv.parsed) = NamesOf(srv.manual)

\* A string that is valid UTF-8.
ValidUTF8(str) == \A k \in 1..Len(str) : str[k] # InvalidByte

\* A manual whose tool names are valid UTF-8 and whose tool providers hold
\* only values encoding/json can encode.
Encodable(manual) ==
    /\ ~Unsupported(manual)
    /\ \A k \in 1..Len(manual.Tools.elems) : ValidUTF8(manual.Tools.elems[k].name)

\* C23 as claimed: for every manual built with NewManual() and any sequence of
\* AddTool calls, ToJSON and parsing its result give a manual with the same
\* version, the same number of tools and the same tool names in order.
C23_RoundTripEveryManual == srv.pc = "parsed" => RoundTripped

\* C23, amended: for every manual built with NewManual() and AddTool calls
\* whose tool names are valid UTF-8 and whose tools hold only values
\* encoding/json can encode, ToJSON succeeds and parsing its result gives a
\* manual with the same version, the same number of tools and the same tool
\* names in order.
C23_RoundTripEncodableManual ==
    (srv.pc \in {"json", "failed", "parsed"} /\ Encodable(srv.manual)) =>
       /\ srv.pc # "failed"
       /\ srv.err = ""
       /\ srv.pc = "parsed" => RoundTripped

\* A manual of two tools, one with a name encoding/json escapes, has been
\* serialized and parsed.
C23_Witness ==
    /\ srv.pc = "parsed"
    /\ Encodable(srv.manual)
    /\ NamesOf(srv.manual) = << GoString(<< "a", "<", "b" >>), GoString(<< "test_tool" >>) >>
    /\ RoundTripped

\* The falsy defaults: false, 0 and the empty string.
Falsy == {Interface("bool", "false"), Interface("int", "0"), Interface("string", "")}

\* C24: the encoding of a property has its default field exactly when a
\* default was set; a default of false, 0 or "" is written with its value, and
\* the field is omitted only when no default was set.
C24_DefaultPresenceTracked ==
    srv.pc = "marshaled" =>
       /\ srv.json.default.present = (srv.property.Default # NilInterface)
       /\ srv.property.Default \in Falsy =>
             /\ srv.json.default.present
             /\ srv.json.default.text = MarshalInterface(srv.property.Default)
             /\ srv.json.default.text \in {"false", "0", "\"\""}

\* The property {type: "boolean", default: false} has been encoded with
\* "default": false.
C24_Witness ==
    /\ srv.pc = "marshaled"
    /\ srv.property.Type = "boolean"
    /\ srv.property.Default = Interface("bool", "false")
    /\ srv.json.default = [present |-> TRUE, text |-> "false"]

\* A provider object but for its Enabled field, which its holders may assign.
Identity(object) == [object EXCEPT !.enabled = FALSE]

\* C25: GetAllProviders, GetEnabledProviders and GetAllTools are snapshot
\* reads.  Each takes its list in one step, under the read lock and with no
\* writer in its section, from the instance mapping of that state: all the
\* stored providers, or those stored and enabled then.  While a GetAllTools
\* holds its snapshot, the steps of other goroutines (CreateProvider, Clear)
\* leave the snapshot and its providers as they are, and the tools it returns
\* are those of the providers of the snapshot, whatever the mapping holds by
\* then.
C25_SnapshotReads ==
    [][ \A p \in Procs :
           /\ (Step(p) /\ frame[p].pc \in {"ga_rlocked", "ge_rlocked", "gt_rlocked"}) =>
                 /\ mu.r > 0
                 /\ ~mu.w
                 /\ \A q \in Procs : ~InWrite(q)
                 /\ mu'.r = mu.r - 1
                 /\ providers' = providers
           /\ (Step(p) /\ frame[p].pc = "ga_rlocked") =>
                 /\ frame'[p].pc = "ret"
                 /\ \E order \in Orders(DOMAIN providers) :
                       frame'[p].list = [k \in 1..Len(order) |-> providers[order[k]]]
           /\ (Step(p) /\ frame[p].pc \in {"ge_rlocked", "gt_rlocked"}
                 /\ frame'[p].pc # "panic") =>
                 /\ frame'[p].pc = (IF frame[p].pc = "ge_rlocked" THEN "ret" ELSE "gt_loop")
                 /\ Enumerates(frame'[p].list, {x \in Range(providers) : heap[x].enabled})
           /\ (frame[p].pc = "gt_loop" /\ ~Step(p)) =>
                 /\ frame'[p].list = frame[p].list
                 /\ \A x \in Range(frame[p].list) : Identity(heap'[x]) = Identity(heap[x])
           /\ (Step(p) /\ frame[p].pc = "gt_loop") =>
                 /\ frame'[p].pc = "ret"
                 /\ frame'[p].list = frame[p].list
                 /\ ToolsAreConcatenation(frame[p].list, frame'[p].tools)
                 /\ \A k \in 1..Len(frame'[p].tools) :
                       frame'[p].tools[k].owner \in Range(frame[p].list)
      ]_vars

\* GetAllTools has returned the tools of a provider of its snapshot that a
\* Clear has removed from the mapping since.
C25_Witness ==
    \E p \in Procs :
       /\ Ret(p, "GetAllTools")
       /\ Len(frame[p].tools) = Len(JiraToolNames)
       /\ providers = EmptyMap
       /\ frame[p].tools[1].owner \notin Range(providers)

\* C26: every value stored in the instance mapping is a non-nil provider,
\* whatever the registered factory returned, and no GetEnabledProviders or
\* GetAllTools faults on a stored instance.
C26_StoredProvidersUsable ==
    /\ \A n \in DOMAIN providers : providers[n] # NilProvider
    /\ \A p \in Procs : frame[p].pc # "panic"

\* C27: the factory CreateProvider(name, type, config) invokes gets a config
\* whose "name" entry is the name argument, whatever "name" the caller put in
\* config; so the provider a built-in factory builds reports that name, and
\* every instance stored reports through GetName() the key it is stored under.
C27_StoredUnderReportedName ==
    [][ /\ \A p \in Procs :
              (Step(p) /\ frame[p].pc = "cp_factory") =>
                 /\ InjectName(frame[p].config, frame[p].name).name = frame[p].name
                 /\ frame'[p].pc = "ret" => frame'[p].config.name = frame[p].name
                 /\ frame'[p].provider # NilProvider =>
                       /\ heap'[frame'[p].provider].name = frame[p].name
                       /\ frame'[p].name = frame[p].name
        /\ \A n \in DOMAIN providers' :
              providers'[n] # NilProvider => heap'[providers'[n]].name = n
      ]_vars

\* A CreateProvider whose caller put the name "stale" in config (the one
\* config of the callers that enables the provider) has stored its instance,
\* which reports the name it is stored under.
C27_Witness ==
    \E p \in Procs :
       /\ Ret(p, "CreateProvider")
       /\ frame[p].err = NoError
       /\ frame[p].provider # NilProvider
       /\ heap[frame[p].provider].enabled
       /\ providers[frame[p].name] = frame[p].provider
       /\ heap[frame[p].provider].name = frame[p].name
       /\ frame[p].name # "stale"

\* p holds no lock: the mutex counts the other goroutines' sections only.
HoldsNoLock(p) ==
    /\ ~InRead(p)
    /\ ~InWrite(p)
    /\ mu.r = Cardinality({q \in Procs \ {p} : InRead(q)})
    /\ mu.w = (\E q \in Procs \ {p} : InWrite(q))

\* p is in a registry operation.
InCall(p) == frame[p].pc \notin {"idle", "ret", "panic"}

\* A provider method has not returned: IsEnabled() on a nil provider panicked.
MethodFaulted == Crashed

EnabledInstances == {n \in DOMAIN providers : providers[n] # NilProvider /\ heap[providers[n]].enabled}

\* The names of the enabled provider configurations whose type has a
\* registered factory.
EnabledConfigured ==
    {srv.cfg.Providers[k].Name : k \in {j \in 1..Len(srv.cfg.Providers) :
        srv.cfg.Providers[j].Enabled /\ srv.cfg.Providers[j].Type \in DOMAIN factories}}

\* C29: once createProviders has returned for a validated configuration, every
\* enabled provider configuration whose type has a registered factory has been
\* constructed without error, and the enabled instances of the registry are
\* exactly those.
C29_EnabledValidatedConstructed ==
    srv.pc \in {"router", "run", "listening"} =>
       /\ \A k \in 1..Len(srv.cfg.Providers) :
             (srv.cfg.Providers[k].Enabled /\ srv.cfg.Providers[k].Type \in DOMAIN factories) =>
                srv.attempts[k].err = NoError
       /\ EnabledInstances = EnabledConfigured

\* C30: in every configuration Load() returns, the provider names are pairwise
\* distinct, whatever the environment and the config file hold.
C30_LoadedNamesDistinct ==
    (srv.pc # "main" /\ ~LoadFailed) =>
       \A i, j \in 1..Len(srv.cfg.Providers) :
          i # j => srv.cfg.Providers[i].Name # srv.cfg.Providers[j].Name

\* Load has returned one provider for a config file that lists two different
\* entries of one name, and has dropped the second.
C30_Witness ==
    /\ srv.pc = "loaded"
    /\ Len(srv.file.list) = 2
    /\ srv.file.list[1].Name = srv.file.list[2].Name
    /\ srv.file.list[1] # srv.file.list[2]
    /\ srv.env.JIRA_BASE_URL # ""
    /\ srv.cfg.Providers = << JiraEntry(srv.env), srv.file.list[1] >>

====
